---- MODULE Spec2Model ----
(***************************************************************************)
(* TCVS form automation API (src/src/index.js).                            *)
(*                                                                         *)
(* The model covers TCVSController.submitForm (POST /api/submit) and       *)
(* TCVSService.submitForm: the retry loop, the browser and page handles,   *)
(* the result extraction run in the page and the outcome that is returned. *)
(*                                                                         *)
(* Text is modelled as a sequence of word tokens; the token " " stands for *)
(* white space at the edge of a text node (what String.trim removes).      *)
(* JavaScript's undefined is the text UNDEF.                               *)
(***************************************************************************)
EXTENDS Integers, Sequences, FiniteSets, TLC

\* ------------------------------------------------------------------ text
UNDEF == <<"%undefined%">>
EMPTY == <<>>

\* JavaScript truthiness of a string-or-undefined value
Truthy(t) == t # UNDEF /\ t # EMPTY

\* String.prototype.includes
Includes(s, n) ==
  \E i \in 1..(Len(s) - Len(n) + 1) : SubSeq(s, i, i + Len(n) - 1) = n

\* index of the first occurrence of n in s, 0 when there is none
IndexOf(s, n) ==
  IF Includes(s, n)
    THEN CHOOSE i \in 1..(Len(s) - Len(n) + 1) :
           /\ SubSeq(s, i, i + Len(n) - 1) = n
           /\ \A j \in 1..(i - 1) : SubSeq(s, j, j + Len(n) - 1) # n
    ELSE 0

\* String.prototype.replace(n, '') with a string pattern: first occurrence only
Remove(s, n) ==
  IF IndexOf(s, n) = 0 THEN s
  ELSE SubSeq(s, 1, IndexOf(s, n) - 1) \o SubSeq(s, IndexOf(s, n) + Len(n), Len(s))

RECURSIVE TrimLeft(_)
TrimLeft(s) == IF s # EMPTY /\ Head(s) = " " THEN TrimLeft(Tail(s)) ELSE s

RECURSIVE TrimRight(_)
TrimRight(s) ==
  IF s # EMPTY /\ s[Len(s)] = " " THEN TrimRight(SubSeq(s, 1, Len(s) - 1)) ELSE s

\* Trim as trimEnd: the leading white space stays
TrimEndOnly(s) == TrimRight(s)

\* String.prototype.trim
Trim(s) == TrimRight(TrimLeft(s))

LowerTok(w) ==
  CASE w = "Check" -> "check"
    [] w = "Verified" -> "verified"
    [] w = "No" -> "no"
    [] w = "Not" -> "not"
    [] w = "Match" -> "match"
    [] w = "Status" -> "status"
    [] w = "Paid" -> "paid"
    [] w = "Error" -> "error"
    [] w = "Server" -> "server"
    [] w = "(Simulated)" -> "(simulated)"
    [] OTHER -> w

\* String.prototype.toLowerCase
Lower(s) == [i \in 1..Len(s) |-> LowerTok(s[i])]

\* the literals the code searches for or writes
CheckVerifiedT == <<"Check", "Verified">>
NoMatchT == <<"No", "Match">>
StatusPaidT == <<"Status", ":", "Paid">>
ServerErrorT == <<"Server", "error">>
ValidationResultsT == <<"Validation", "Results">>
NoMatchDefaultT == <<"Check", "information", "does", "not", "match", "our", "records">>

\* ---------------------------------------------------------------- config
VARIABLES env

\* process.env.X === 'true' || false
EnvTrue(v) == v = "true"

config_nodeEnv == IF env.NODE_ENV = "unset" THEN "development" ELSE env.NODE_ENV
config_simulateResults == EnvTrue(env.SIMULATE_RESULTS)
config_autoSimulateOnError == EnvTrue(env.AUTO_SIMULATE_ON_ERROR)
\* config_simulationMode with the environment variable ignored
config_simulationModeDefault == "success"

config_simulationMode ==
  IF env.SIMULATION_MODE = "unset" THEN "success" ELSE env.SIMULATION_MODE

Envs ==
  [NODE_ENV : {"unset", "development", "production"},
   SIMULATE_RESULTS : {"unset", "true"},
   AUTO_SIMULATE_ON_ERROR : {"unset", "true"},
   SIMULATION_MODE : {"unset", "success", "noMatch"},
   SIMULATE_SUCCESS : {"unset", "true"}]

\* ------------------------------------------------- the page after submit
(* A document as the extraction script sees it:                            *)
(*   hostLocal  window.location.hostname is 'localhost' or ''              *)
(*   headings   the h3 elements whose trimmed text is 'Validation Results',*)
(*              in document order; for each: col (it has an ancestor       *)
(*              div.col), alert (that column holds a div.alert), h3 (the   *)
(*              alert holds an h3), H (that h3's textContent), T (the rest *)
(*              of the alert's textContent), cls (the alert's className)   *)
(*   alerts     the elements matching .alert, .message, .notification,     *)
(*              .info, in document order: text, cls                        *)
(*   body       document.body.textContent                                  *)
(*   form       a form element exists; invalid: number of input:invalid    *)
(***************************************************************************)
Block(col, h3, H, T, cls) ==
  [col |-> col, alert |-> TRUE, h3 |-> h3, H |-> H, T |-> T, cls |-> cls]

BareHeading(col) ==
  [col |-> col, alert |-> FALSE, h3 |-> FALSE, H |-> EMPTY, T |-> EMPTY, cls |-> EMPTY]

BlockText(b) == IF b.h3 THEN b.H \o b.T ELSE b.T

RECURSIVE BlockAlerts(_)
BlockAlerts(hs) ==
  IF hs = <<>> THEN <<>>
  ELSE (IF Head(hs).alert
          THEN <<[text |-> BlockText(Head(hs)), cls |-> Head(hs).cls]>>
          ELSE <<>>) \o BlockAlerts(Tail(hs))

RECURSIVE AlertsText(_)
AlertsText(as) == IF as = <<>> THEN <<>> ELSE Head(as).text \o AlertsText(Tail(as))

RECURSIVE HeadingsText(_)
HeadingsText(hs) ==
  IF hs = <<>> THEN <<>> ELSE ValidationResultsT \o HeadingsText(Tail(hs))

\* a document: the blocks' alerts are alerts of the page too, and the body
\* text holds every element's text
MkPage(hostLocal, headings, others, rest, form, invalid) ==
  [hostLocal |-> hostLocal,
   headings |-> headings,
   alerts |-> BlockAlerts(headings) \o others,
   body |-> HeadingsText(headings) \o AlertsText(BlockAlerts(headings) \o others) \o rest,
   form |-> form,
   invalid |-> invalid]

AlertDanger == <<"alert", "alert-danger">>
AlertWarning == <<"alert", "alert-warning">>
PaidTail == <<" ">> \o StatusPaidT
ReasonTail == <<" ", "Amount", "does", "not", "match">>
ServerErrTail ==
  <<" ">> \o ServerErrorT \o <<"fetching", "results", ".", "Please", "try", "again">>
FormText == <<"Issue", "Date", "Amount">>

\* the number of invalid inputs a page of Pages has at most
MaxInvalid == 1

Pages ==
  { \* the structured block, in a div.col
    MkPage(FALSE, <<Block(TRUE, TRUE, CheckVerifiedT, PaidTail, AlertDanger)>>, <<>>, <<>>, TRUE, 0),
    MkPage(FALSE, <<Block(TRUE, TRUE, NoMatchT, ReasonTail, AlertDanger)>>, <<>>, <<>>, TRUE, 0),
    MkPage(FALSE, <<Block(TRUE, TRUE, <<"Error">>, ServerErrTail, AlertWarning)>>, <<>>, <<>>, TRUE, 0),
    MkPage(FALSE, <<Block(TRUE, TRUE, <<"Notice">>, <<" ", "Service", "unavailable">>, AlertWarning)>>, <<>>, <<>>, TRUE, 0),
    MkPage(FALSE, <<Block(TRUE, TRUE, <<"Pending">>, <<" ", "Under", "review">>, AlertWarning)>>, <<>>, <<>>, TRUE, 0),
    MkPage(FALSE, <<Block(TRUE, TRUE, CheckVerifiedT, ServerErrTail, AlertDanger)>>, <<>>, <<>>, TRUE, 0),
    \* a heading that is neither of the two results but names one
    MkPage(FALSE, <<Block(TRUE, TRUE, <<"Not", "Verified">>, ReasonTail, AlertDanger)>>, <<>>, <<>>, TRUE, 0),
    \* the block without its own h3, its text in another letter case
    MkPage(FALSE, <<Block(TRUE, FALSE, EMPTY, <<" ", "check", "verified">> \o PaidTail, AlertDanger)>>, <<>>, <<>>, TRUE, 0),
    \* the block without its own h3
    MkPage(FALSE, <<Block(TRUE, FALSE, EMPTY, <<" ">> \o CheckVerifiedT \o PaidTail, AlertDanger)>>, <<>>, <<>>, TRUE, 0),
    MkPage(FALSE, <<Block(TRUE, FALSE, EMPTY, ServerErrTail, AlertWarning)>>, <<>>, <<>>, TRUE, 0),
    \* the block outside any div.col, and a heading with no alert before it
    MkPage(FALSE, <<Block(FALSE, TRUE, CheckVerifiedT, PaidTail, AlertDanger)>>, <<>>, <<>>, TRUE, 0),
    MkPage(FALSE, <<BareHeading(TRUE), Block(TRUE, TRUE, NoMatchT, EMPTY, AlertDanger)>>, <<>>, <<>>, TRUE, 0),
    \* generic alert and message elements only
    MkPage(FALSE, <<>>, <<[text |-> NoMatchT, cls |-> <<"message">>]>>, <<>>, TRUE, 0),
    MkPage(FALSE, <<>>, <<[text |-> ServerErrTail, cls |-> AlertWarning]>>, <<>>, TRUE, 0),
    \* page text only
    MkPage(FALSE, <<>>, <<>>, CheckVerifiedT \o StatusPaidT, FALSE, 0),
    MkPage(FALSE, <<>>, <<>>, <<"Result", ":">> \o NoMatchT, TRUE, 0),
    \* nothing recognisable
    MkPage(FALSE, <<>>, <<>>, FormText, TRUE, 0),
    MkPage(FALSE, <<>>, <<>>, FormText, TRUE, MaxInvalid),
    MkPage(FALSE, <<>>, <<>>, EMPTY, FALSE, 0),
    MkPage(TRUE, <<>>, <<>>, FormText, TRUE, 0),
    MkPage(TRUE, <<>>, <<>>, <<"Result", ":">> \o NoMatchT, TRUE, 0) }

\* ------------------------------------------------------ result extraction
\* the object the extraction script builds (paymentStatus and
\* reasonForNoMatch, which nothing reads, are left out)
EmptyRD ==
  [status |-> UNDEF, details |-> UNDEF, fullText |-> UNDEF, alertType |-> UNDEF,
   isSuccessful |-> "undefined", isServerError |-> FALSE, error |-> FALSE,
   simulated |-> FALSE]

\* index of the first 'Validation Results' heading in a div.col holding a
\* div.alert, 0 when there is none
FirstBlock(hs) ==
  IF \E i \in 1..Len(hs) : hs[i].col /\ hs[i].alert
    THEN CHOOSE i \in 1..Len(hs) :
           /\ hs[i].col /\ hs[i].alert
           /\ \A j \in 1..(i - 1) : ~(hs[j].col /\ hs[j].alert)
    ELSE 0

\* tier 1: the structured block
ExtractBlock(b) ==
  LET alertText == Trim(BlockText(b))
      headingText == IF b.h3 THEN Trim(b.H) ELSE EMPTY
      details == Trim(Remove(alertText, headingText))
      base == [EmptyRD EXCEPT !.fullText = alertText,
                              !.alertType = Trim(Remove(b.cls, <<"alert">>))]
  IN IF headingText # EMPTY
       THEN LET r == [base EXCEPT !.status = headingText, !.details = details]
            IN IF headingText = CheckVerifiedT
                 THEN [r EXCEPT !.isSuccessful = "true"]
               ELSE IF headingText = NoMatchT
                 THEN [r EXCEPT !.isSuccessful = "false"]
               ELSE IF \/ Includes(headingText, <<"Error">>)
                       \/ Includes(details, <<"error">>)
                       \/ Includes(details, <<"try", "again">>)
                       \/ Includes(details, <<"unavailable">>)
                 THEN [r EXCEPT !.isServerError = TRUE, !.isSuccessful = "false"]
               ELSE r
     ELSE IF Includes(alertText, CheckVerifiedT)
       THEN [base EXCEPT !.status = CheckVerifiedT, !.isSuccessful = "true",
                         !.details = IF Includes(alertText, StatusPaidT)
                                       THEN StatusPaidT ELSE UNDEF]
     ELSE IF Includes(alertText, NoMatchT)
       THEN [base EXCEPT !.status = NoMatchT, !.isSuccessful = "false",
                         !.details = Trim(Remove(alertText, NoMatchT))]
     ELSE base

AlertMatches(a) ==
  LET alertText == Trim(a.text)
  IN /\ alertText # EMPTY
     /\ \/ Includes(alertText, CheckVerifiedT)
        \/ Includes(alertText, NoMatchT)
        \/ Includes(alertText, StatusPaidT)

FirstAlert(as) ==
  IF \E i \in 1..Len(as) : AlertMatches(as[i])
    THEN CHOOSE i \in 1..Len(as) :
           AlertMatches(as[i]) /\ \A j \in 1..(i - 1) : ~AlertMatches(as[j])
    ELSE 0

\* tier 2: any alert, message, notification or info element
ExtractAlert(a) ==
  LET alertText == Trim(a.text)
      base == [EmptyRD EXCEPT !.fullText = alertText, !.alertType = a.cls]
  IN IF Includes(alertText, CheckVerifiedT)
       THEN [base EXCEPT !.status = CheckVerifiedT, !.isSuccessful = "true",
                         !.details = IF Includes(alertText, StatusPaidT)
                                       THEN StatusPaidT
                                       ELSE Trim(Remove(alertText, CheckVerifiedT))]
     ELSE IF Includes(alertText, NoMatchT)
       THEN [base EXCEPT !.status = NoMatchT, !.isSuccessful = "false",
                         !.details = IF Truthy(Trim(Remove(alertText, NoMatchT)))
                                       THEN Trim(Remove(alertText, NoMatchT))
                                       ELSE NoMatchDefaultT]
     ELSE base

\* tier 3: the page text
ExtractBody(bodyText) ==
  IF Includes(bodyText, CheckVerifiedT) /\ Includes(bodyText, StatusPaidT)
    THEN [EmptyRD EXCEPT !.status = CheckVerifiedT, !.details = StatusPaidT,
                         !.isSuccessful = "true",
                         !.fullText = CheckVerifiedT \o <<".">> \o StatusPaidT]
  ELSE IF Includes(bodyText, NoMatchT)
    THEN [EmptyRD EXCEPT !.status = NoMatchT, !.isSuccessful = "false",
                         !.details = NoMatchDefaultT,
                         !.fullText = NoMatchT \o <<".">> \o NoMatchDefaultT]
  ELSE EmptyRD

\* the result synthesized on a localhost page
LocalhostRD ==
  [EmptyRD EXCEPT !.status = CheckVerifiedT, !.details = StatusPaidT,
                  !.isSuccessful = "true",
                  !.fullText = CheckVerifiedT \o <<".">> \o StatusPaidT,
                  !.alertType = <<"alert-danger">>, !.simulated = TRUE]

\* the development fallback applies: a localhost page with no result found
LocalhostFallback(p, r) ==
  p.hostLocal /\ (~Truthy(r.status) \/ ~Truthy(r.fullText))

\* still on the form page
ExtractForm(p, r) ==
  IF Truthy(r.status) \/ ~p.form THEN r
  ELSE IF p.invalid > 0
    THEN [r EXCEPT !.status = <<"Form", "Validation", "Error">>,
                   !.details = <<ToString(p.invalid), "form", "field(s)", "failed", "validation">>,
                   !.isSuccessful = "false"]
  ELSE [r EXCEPT !.status = <<"Form", "Not", "Submitted">>,
                 !.details = <<"The", "form", "may", "not", "have", "been", "submitted", "properly", ".">>,
                 !.isSuccessful = "false"]

\* the script evaluated in the page
\* Extract with the generic alert elements consulted before the structured
\* block
ExtractAlertsFirst(p) ==
  IF FirstAlert(p.alerts) # 0 THEN ExtractAlert(p.alerts[FirstAlert(p.alerts)])
  ELSE IF FirstBlock(p.headings) # 0 THEN ExtractBlock(p.headings[FirstBlock(p.headings)])
  ELSE LET r == ExtractBody(p.body)
       IN IF LocalhostFallback(p, r)
            THEN LocalhostRD
            ELSE ExtractForm(p, r)

Extract(p) ==
  IF FirstBlock(p.headings) # 0 THEN ExtractBlock(p.headings[FirstBlock(p.headings)])
  ELSE IF FirstAlert(p.alerts) # 0 THEN ExtractAlert(p.alerts[FirstAlert(p.alerts)])
  ELSE LET r == ExtractBody(p.body)
       IN IF LocalhostFallback(p, r)
            THEN LocalhostRD
            ELSE ExtractForm(p, r)

\* the .catch of the evaluation: what is extracted when the script throws
ExtractFailed(msg) ==
  [EmptyRD EXCEPT !.status = <<"Error">>, !.details = <<"Error", ":">> \o msg,
                  !.isSuccessful = "false", !.error = TRUE]

\* ------------------------------------------------------------- outcomes
maxRetries == 3
BackoffMs == 5000

RequiredFields == <<"issueDate", "symbol", "serial", "checkAmount", "rtn">>

\* the value of a body field: absent, or a JSON value
FieldValues == {"undefined", "emptyString", "text"}

\* Falsy with the test written as a comparison with null
FalsyNullOnly(v) == v = "null"

\* !req.body[field]
Falsy(v) == v \in {"undefined", "emptyString", "zero", "false", "null"}

\* formData as built by the controller: the five values, in order
FormDataOf(b) == [i \in 1..Len(RequiredFields) |-> b[RequiredFields[i]]]

NoOutcome == [success |-> FALSE, message |-> "none", error |-> UNDEF, data |-> <<>>]

\* IsServerError by the flag of the extraction alone
IsServerErrorFlagOnly(rd) == rd.isServerError

\* the server-error condition tested by the orchestrator
IsServerError(rd) ==
  \/ rd.isServerError
  \/ (Truthy(rd.details) /\ Includes(rd.details, ServerErrorT))
  \/ (Truthy(rd.fullText) /\ Includes(rd.fullText, ServerErrorT))

\* string concatenation with a value that may be undefined
Str(t) == IF t = UNDEF THEN <<"undefined">> ELSE t

\* a || b on strings
OrElse(a, b) == IF Truthy(a) THEN a ELSE b

SimulatedT == <<"(Simulated)">>

\* SimulatedOutcome with the mode test inverted
SimulatedOutcomeSwapped(fd) ==
  [success |-> TRUE,
   message |-> "Form submitted successfully (simulated after server error)",
   error |-> UNDEF,
   data |-> [verified |-> IF config_simulationMode = "noMatch" THEN "true" ELSE "false",
             status |-> (IF config_simulationMode = "noMatch"
                           THEN CheckVerifiedT ELSE NoMatchT) \o SimulatedT,
             details |-> StatusPaidT \o SimulatedT,
             fullText |-> StatusPaidT \o SimulatedT,
             alertType |-> <<"alert-danger">>,
             simulated |-> "true",
             treasuryServerError |-> TRUE,
             formData |-> fd,
             hasResults |-> "true"]]

\* the fabricated result returned after a server error
SimulatedOutcome(formData) ==
  IF config_simulationMode = "noMatch"
    THEN [success |-> TRUE,
          message |-> "Form submitted successfully (simulated after server error)",
          error |-> UNDEF,
          data |-> [verified |-> "false",
                    status |-> NoMatchT \o SimulatedT,
                    details |-> <<"The", "check", "information", "does", "not", "match",
                                  "our", "records">> \o SimulatedT,
                    fullText |-> NoMatchT \o <<".", "The", "check", "information", "does",
                                  "not", "match", "our", "records">> \o SimulatedT,
                    alertType |-> <<"alert-danger">>,
                    simulated |-> "true",
                    treasuryServerError |-> TRUE,
                    formData |-> formData,
                    hasResults |-> "true"]]
    ELSE [success |-> TRUE,
          message |-> "Form submitted successfully (simulated after server error)",
          error |-> UNDEF,
          data |-> [verified |-> "true",
                    status |-> CheckVerifiedT \o SimulatedT,
                    details |-> StatusPaidT \o SimulatedT,
                    fullText |-> CheckVerifiedT \o <<".">> \o StatusPaidT \o SimulatedT,
                    alertType |-> <<"alert-success">>,
                    simulated |-> "true",
                    treasuryServerError |-> TRUE,
                    formData |-> formData,
                    hasResults |-> "true"]]

\* the server error reported as it is
ServerErrorOutcome(rd, formData) ==
  [success |-> FALSE,
   message |-> "Treasury server error",
   error |-> <<"Treasury", "server", "returned", ":">>
               \o OrElse(rd.details, ServerErrorT \o <<"fetching", "results">>),
   data |-> [verified |-> "false",
             status |-> <<"Error">>,
             details |-> OrElse(rd.details,
                           ServerErrorT \o <<"fetching", "results", ".", "Please", "try",
                                             "again", "in", "a", "minute", ".">>),
             fullText |-> OrElse(rd.fullText, ServerErrorT \o <<"fetching", "results", ".">>),
             alertType |-> <<"alert-warning">>,
             simulated |-> "false",
             treasuryServerError |-> TRUE,
             formData |-> formData,
             hasResults |-> "false"]]

\* Overridden without the simulated mark
OverriddenUnmarked(rd) ==
  IF env.NODE_ENV = "development" /\ (rd.isSuccessful # "true" \/ rd.error)
     /\ env.SIMULATE_SUCCESS = "true"
    THEN [rd EXCEPT !.status = CheckVerifiedT \o SimulatedT,
                    !.details = StatusPaidT \o SimulatedT,
                    !.isSuccessful = "true", !.error = FALSE]
    ELSE rd

\* the development override of a result that is not a success
SimulateSuccessApplies(rd) ==
  /\ env.NODE_ENV = "development"
  /\ (rd.isSuccessful # "true" \/ rd.error)
  /\ env.SIMULATE_SUCCESS = "true"

Overridden(rd) ==
  IF SimulateSuccessApplies(rd)
    THEN [rd EXCEPT !.status = CheckVerifiedT \o SimulatedT,
                    !.details = StatusPaidT \o SimulatedT,
                    !.isSuccessful = "true", !.simulated = TRUE, !.error = FALSE]
    ELSE rd

\* isSuccessful === true || (status && status.toLowerCase().includes('verified'))
IsVerified(rd) ==
  IF rd.isSuccessful = "true" THEN "true"
  ELSE IF rd.status = UNDEF THEN "undefined"
  ELSE IF rd.status = EMPTY THEN "emptyString"
  ELSE IF Includes(Lower(rd.status), <<"verified">>) THEN "true"
  ELSE "false"

\* status derived from fullText when the extraction left it out
WithStatus(rd) ==
  IF ~Truthy(rd.status) /\ Truthy(rd.fullText)
    THEN IF Includes(Lower(rd.fullText), Lower(NoMatchT))
           THEN [rd EXCEPT !.status = NoMatchT, !.isSuccessful = "false"]
         ELSE IF Includes(Lower(rd.fullText), Lower(CheckVerifiedT))
           THEN [rd EXCEPT !.status = CheckVerifiedT, !.isSuccessful = "true",
                           !.details = IF Includes(Lower(rd.fullText), Lower(StatusPaidT))
                                         THEN StatusPaidT ELSE rd.details]
         ELSE rd
    ELSE rd

\* details filled in when missing
WithDetails(rd) ==
  IF rd.status = CheckVerifiedT /\ ~Truthy(rd.details)
    THEN [rd EXCEPT !.details =
            IF Truthy(rd.fullText) /\ Includes(Lower(rd.fullText), Lower(StatusPaidT))
              THEN StatusPaidT ELSE <<"Verification", "successful">>]
  ELSE IF rd.status = NoMatchT /\ ~Truthy(rd.details)
    THEN [rd EXCEPT !.details = NoMatchDefaultT]
  ELSE rd

\* the return at the end of an attempt
NormalOutcome(rd0, formData) ==
  LET rd1 == Overridden(rd0)
      rd == WithDetails(WithStatus(rd1))
  IN [success |-> ~rd.error,
      message |-> IF rd.error THEN "Form submission encountered issues"
                  ELSE "Form submitted successfully",
      error |-> UNDEF,
      data |-> [verified |-> IsVerified(rd1),
                status |-> OrElse(rd.status, <<"Unknown">>),
                details |-> OrElse(rd.details, rd.fullText),
                fullText |-> rd.fullText,
                alertType |-> rd.alertType,
                simulated |-> IF rd.simulated THEN "true" ELSE "false",
                treasuryServerError |-> FALSE,
                formData |-> formData,
                hasResults |-> IF Truthy(rd.status) THEN "true" ELSE "false"]]

\* the return after the loop; lastErr is UNDEF when lastError is null
FailureOutcome(lastErr) ==
  [success |-> FALSE,
   message |-> "Failed to get verification result after 3 attempts",
   error |-> IF lastErr # UNDEF THEN lastErr ELSE <<"Unknown", "error">>,
   data |-> [verified |-> "false",
             status |-> <<"Error">>,
             details |-> IF lastErr # UNDEF THEN lastErr
                         ELSE <<"Multiple", "failed", "attempts", "to", "verify", "check">>,
             fullText |-> UNDEF,
             alertType |-> UNDEF,
             simulated |-> "absent",
             treasuryServerError |-> FALSE,
             formData |-> UNDEF,
             hasResults |-> "absent"]]

\* ---------------------------------------------------------------- state
VARIABLES
  body,        \* req.body: field -> value
  cpc,         \* the controller: "recv", "awaiting", "responded"
  res,         \* the HTTP response sent: status, missing (the fields named), result
  serviceCalls,\* calls of TCVSService.submitForm
  pc,          \* the position in TCVSService.submitForm
  browser,     \* the local browser: 0 is null, else the handle
  page,        \* the local page: 0 is null, else the handle
  retryCount,
  lastError,   \* the message of lastError, UNDEF when it is null
  thrown,      \* the message of the error being thrown to the catch clause
  thrownAt,    \* the statement that threw it, "none" when nothing is thrown
  captchaLog,  \* the CAPTCHA steps of this attempt whose error was logged
  tried,       \* the submission strategies tried in this attempt: s, res
  race,        \* how the navigation / response race of this attempt ended
  typed,       \* the values typed into the form of the open page, <<>> when none
  \* concurrent calls of submitForm on the one service instance
  calls,       \* per call: pc, retryCount, connects, returning
  frames,      \* per frame of locals: browser, page
  used,        \* <<call, handle>>: the call has used or closed the handle
  \* the .NET client side
  apiUp,       \* the API is running and answers
  app,         \* which client program runs: "readme", "main", "form", "none"
  prog,        \* the console program: pc, healthCheck
  lib,         \* the call of SubmitTcvsFormAsync with verification: pc, answer, result
  form,        \* VerificationForm: its controls and pending work
  posts,       \* the POST /submit requests sent: by, answer
  dialogs,     \* the answers given in verification dialogs
  resultData,
  ret,         \* the value of a return statement waiting for the finally clause
  outcome,     \* the value submitForm resolved with
  browsers,    \* per handle: st ("none", "open", "closed"), closeCalls
  pages,       \* per handle: st, closeCalls
  \* history
  connects,    \* puppeteer.connect / puppeteer.launch calls so far
  delays,      \* the backoff delays waited so far, in ms
  attempts,    \* how each finished attempt ended: end, msg
  dom,         \* the document the last extraction ran on
  via          \* the return statement that produced the outcome

vars ==
  <<env, body, cpc, res, serviceCalls, pc, browser, page, retryCount, lastError,
    thrown, thrownAt, captchaLog, tried, race, typed, resultData, ret, outcome, browsers,
    pages, connects, delays, attempts, dom, via, calls, frames, used,
    apiUp, app, prog, lib, form, posts, dialogs>>

ctlVars == <<cpc, res, serviceCalls>>
reqVars == <<env, body>>
\* what only the CAPTCHA and submission steps of an attempt write
trigVars == <<captchaLog, tried, race>>
\* what only the concurrent calls write
concVars == <<calls, frames, used>>
\* what only the .NET client writes
clientVars == <<apiUp, app, prog, lib, form, posts, dialogs>>

\* the number of concurrent submissions
NSub == 2
Subs == 1..NSub
IdleCall == [pc |-> "idle", retryCount |-> 0, connects |-> 0, returning |-> FALSE]
\* a handle is <<call, connect number>>; null is NullH
NullH == <<0, 0>>
NullFrame == [browser |-> NullH, page |-> NullH]

\* the messages of the errors the browser library throws
ErrMsgs == {<<"Navigation", "timeout">>}
FormNotFoundT == <<"Form", "not", "found", "on", "page">>

Handles == 1..maxRetries
NoDom == MkPage(FALSE, <<>>, <<>>, <<"%none%">>, FALSE, 0)
NoRes == [status |-> 0, missing |-> <<>>, result |-> NoOutcome]

Bodies == [{RequiredFields[i] : i \in 1..Len(RequiredFields)} -> FieldValues]

\* the server before a request is handled
ServerStart ==
  /\ cpc = "recv"
  /\ res = NoRes
  /\ serviceCalls = 0
  /\ pc = "idle"
  /\ browser = 0
  /\ page = 0
  /\ retryCount = 0
  /\ lastError = UNDEF
  /\ thrown = UNDEF
  /\ thrownAt = "none"
  /\ captchaLog = {}
  /\ tried = <<>>
  /\ race = "none"
  /\ typed = <<>>
  /\ resultData = EmptyRD
  /\ ret = NoOutcome
  /\ outcome = NoOutcome
  /\ browsers = [h \in Handles |-> [st |-> "none", closeCalls |-> 0]]
  /\ pages = [h \in Handles |-> [st |-> "none", closeCalls |-> 0]]
  /\ connects = 0
  /\ delays = <<>>
  /\ attempts = <<>>
  /\ dom = NoDom
  /\ via = "none"
  /\ calls = [c \in Subs |-> IdleCall]
  /\ frames = [c \in Subs |-> NullFrame]
  /\ used = {}

\* a request arrives at a server started in some environment
ServerInit ==
  /\ env \in Envs
  /\ body \in Bodies
  /\ ServerStart

\* a TcvsResponse: Success, Message, Error
Resp(success, message, error) == [Success |-> success, Message |-> message, Error |-> error]
NoResp == Resp(FALSE, "null", "null")

ProgStart == [pc |-> "start", healthCheck |-> NoResp]
LibIdle == [pc |-> "idle", answer |-> "none", result |-> NoResp]
\* the form as its constructor leaves it: Scan Check enabled, Verify & Submit
\* disabled, the health check in flight
FormStart ==
  [health |-> "pending", healthCheck |-> NoResp, btnScan |-> TRUE, btnVerify |-> FALSE,
   timer |-> FALSE, dialog |-> FALSE, answer |-> "none", posting |-> 0,
   lblStatus |-> "Checking API connection...", scans |-> 0]

\* no client program runs
ClientOff ==
  /\ apiUp = TRUE
  /\ app = "none"
  /\ prog = ProgStart
  /\ lib = LibIdle
  /\ form = FormStart
  /\ posts = <<>>
  /\ dialogs = <<>>

Init == ServerInit /\ ClientOff

\* ----------------------------------------------------------- controller
RECURSIVE MissingFrom(_, _)
\* requiredFields.filter(field => !req.body[field])
MissingFrom(fields, b) ==
  IF fields = <<>> THEN <<>>
  ELSE (IF Falsy(b[Head(fields)]) THEN <<Head(fields)>> ELSE <<>>)
       \o MissingFrom(Tail(fields), b)

missingFields == MissingFrom(RequiredFields, body)

\* validation fails: 400, the service is not called
CtlReject ==
  /\ cpc = "recv"
  /\ Len(missingFields) > 0
  /\ res' = [status |-> 400, missing |-> missingFields, result |-> NoOutcome]
  /\ cpc' = "responded"
  /\ UNCHANGED <<reqVars, concVars, clientVars, trigVars, typed, thrownAt,
                 serviceCalls, pc, browser, page, retryCount, lastError, thrown,
                 resultData, ret, outcome, browsers, pages, connects, delays, attempts,
                 dom, via>>

\* validation passes: this.tcvsService.submitForm(formData) is called
CtlSubmit ==
  /\ cpc = "recv"
  /\ Len(missingFields) = 0
  /\ cpc' = "awaiting"
  /\ serviceCalls' = serviceCalls + 1
  /\ pc' = "loop"
  /\ UNCHANGED <<reqVars, concVars, clientVars, trigVars, typed, thrownAt,
                 res, browser, page, retryCount, lastError, thrown, resultData,
                 ret, outcome, browsers, pages, connects, delays, attempts, dom, via>>

\* CtlRespond answering 200 whatever result.success is
CtlRespondAlways200 ==
  /\ cpc = "awaiting"
  /\ pc = "done"
  /\ res' = [status |-> 200, missing |-> <<>>, result |-> outcome]
  /\ cpc' = "responded"
  /\ UNCHANGED <<reqVars, concVars, clientVars, trigVars, typed, thrownAt,
                 serviceCalls, pc, browser, page, retryCount, lastError, thrown,
                 resultData, ret, outcome, browsers, pages, connects, delays, attempts,
                 dom, via>>

\* the service resolved: 200 or 500 by result.success
CtlRespond ==
  /\ cpc = "awaiting"
  /\ pc = "done"
  /\ res' = [status |-> IF outcome.success THEN 200 ELSE 500, missing |-> <<>>,
             result |-> outcome]
  /\ cpc' = "responded"
  /\ UNCHANGED <<reqVars, concVars, clientVars, trigVars, typed, thrownAt,
                 serviceCalls, pc, browser, page, retryCount, lastError, thrown,
                 resultData, ret, outcome, browsers, pages, connects, delays, attempts,
                 dom, via>>

\* -------------------------------------------------- the service: helpers
attemptFrame == <<reqVars, ctlVars, concVars, clientVars>>
svcFrame == <<attemptFrame, trigVars, typed>>

\* an awaited call rejects: control passes to the catch clause
Throw(msg) ==
  /\ thrown' = msg
  /\ thrownAt' = pc
  /\ pc' = "catch"

\* close() called on a handle. The call may reject; every call site swallows
\* the rejection, so "closed" records that close was called, not that it took
Closed(tbl, h) ==
  [tbl EXCEPT ![h].closeCalls = @ + 1, ![h].st = "closed"]

\* a plain awaited step of the attempt: it resolves, or rejects
Step(here, next) ==
  /\ pc = here
  /\ \/ /\ pc' = next
        /\ UNCHANGED <<thrown, thrownAt>>
     \/ \E m \in ErrMsgs : Throw(m)
  /\ UNCHANGED <<svcFrame, browser, page, retryCount, lastError, resultData, ret, outcome,
                 browsers, pages, connects, delays, attempts, dom, via>>

\* ------------------------------------------------- the service: one attempt
\* LoopCond with an off-by-one bound
LoopCondInclusive == retryCount <= maxRetries

\* LoopTest without the reset of the browser left by the previous attempt
LoopTestNoReset ==
  /\ pc = "loop"
  /\ pc' = IF retryCount < maxRetries THEN "connect" ELSE "cleanup"
  /\ UNCHANGED <<svcFrame, browser, page, retryCount, lastError, thrown, thrownAt,
                 resultData, ret, outcome, browsers, pages, connects, delays, attempts,
                 dom, via>>

\* the loop condition
LoopCond == retryCount < maxRetries

\* while (retryCount < maxRetries)
LoopTest ==
  /\ pc = "loop"
  /\ pc' = IF LoopCond
             THEN (IF browser # 0 THEN "reset" ELSE "connect")
             ELSE "cleanup"
  /\ UNCHANGED <<svcFrame, browser, page, retryCount, lastError, thrown, thrownAt, resultData, ret,
                 outcome, browsers, pages, connects, delays, attempts, dom, via>>

\* ResetBrowser dropping the handle without the call of close
ResetBrowserNoClose ==
  /\ pc = "reset"
  /\ browser' = 0
  /\ page' = 0
  /\ pc' = "connect"
  /\ UNCHANGED <<svcFrame, retryCount, lastError, thrown, thrownAt, resultData, ret, outcome,
                 browsers, pages, connects, delays, attempts, dom, via>>

\* ResetBrowser without page = null
ResetBrowserKeepsPage ==
  /\ pc = "reset"
  /\ browsers' = Closed(browsers, browser)
  /\ browser' = 0
  /\ pc' = "connect"
  /\ UNCHANGED <<svcFrame, page, retryCount, lastError, thrown, thrownAt, resultData, ret,
                 outcome, pages, connects, delays, attempts, dom, via>>

\* the browser of the previous attempt is closed; a failure is logged only
ResetBrowser ==
  /\ pc = "reset"
  /\ browsers' = Closed(browsers, browser)
  /\ browser' = 0
  /\ page' = 0
  /\ pc' = "connect"
  /\ UNCHANGED <<svcFrame, retryCount, lastError, thrown, thrownAt, resultData, ret, outcome, pages,
                 connects, delays, attempts, dom, via>>

\* puppeteer.connect with an API key, puppeteer.launch without: either way a
\* new browser handle, or an error
Connect ==
  /\ pc = "connect"
  /\ connects' = connects + 1
  /\ \/ /\ browser' = connects + 1
        /\ browsers' = [browsers EXCEPT ![connects + 1] =
                          [st |-> "open", closeCalls |-> 0]]
        /\ pc' = "newPage"
        /\ UNCHANGED <<thrown, thrownAt>>
     \/ /\ \E m \in ErrMsgs : Throw(m)
        /\ UNCHANGED <<browser, browsers>>
  /\ UNCHANGED <<svcFrame, page, retryCount, lastError, resultData, ret, outcome, pages,
                 delays, attempts, dom, via>>

\* browser.newPage()
NewPage ==
  /\ pc = "newPage"
  /\ \/ /\ page' = browser
        /\ pages' = [pages EXCEPT ![browser] = [st |-> "open", closeCalls |-> 0]]
        /\ pc' = "setup"
        /\ UNCHANGED <<thrown, thrownAt>>
     \/ /\ \E m \in ErrMsgs : Throw(m)
        /\ UNCHANGED <<page, pages>>
  /\ UNCHANGED <<svcFrame, browser, retryCount, lastError, resultData, ret, outcome,
                 browsers, connects, delays, attempts, dom, via>>

\* setUserAgent, setViewport, the default timeouts
Setup == Step("setup", "goto")

\* Navigate going on to the form filling without the form check
NavigateSkipsFormCheck == Step("goto", "fill")

\* page.goto(config.tcvsUrl)
Navigate == Step("goto", "formCheck")

\* the form-existence check
FormCheck ==
  /\ pc = "formCheck"
  /\ \/ /\ pc' = "fill"
        /\ UNCHANGED <<thrown, thrownAt>>
     \/ Throw(FormNotFoundT)
     \/ \E m \in ErrMsgs : Throw(m)
  /\ UNCHANGED <<svcFrame, browser, page, retryCount, lastError, resultData, ret, outcome,
                 browsers, pages, connects, delays, attempts, dom, via>>

\* Typed with the symbol and the serial number exchanged
TypedSwapped(fd) == <<fd[1], fd[3], fd[2], fd[4], fd[5]>>

\* what the five page.type calls put into #issue_date, #symbol_number,
\* #serial_number, #amount and #bank_rtn, in this order
Typed(fd) == <<fd[1], fd[2], fd[3], fd[4], fd[5]>>

\* the five page.type calls: all resolve, or one rejects
Fill ==
  /\ pc = "fill"
  /\ \/ /\ typed' = Typed(FormDataOf(body))
        /\ pc' = "captcha"
        /\ UNCHANGED <<thrown, thrownAt>>
     \/ /\ \E m \in ErrMsgs : Throw(m)
        /\ UNCHANGED typed
  /\ UNCHANGED <<attemptFrame, trigVars, browser, page, retryCount, lastError, resultData,
                 ret, outcome, browsers, pages, connects, delays, attempts, dom, via>>

\* what the CAPTCHA and submission steps leave alone
trigFrame ==
  <<attemptFrame, typed, browser, page, retryCount, lastError, resultData, ret, outcome,
    browsers, pages, connects, delays, attempts, dom, via>>

\* const hasCaptcha = await page.evaluate(...): the probe is awaited outside
\* every try block of the CAPTCHA handling, so its rejection reaches the catch
\* clause of the attempt
Captcha ==
  /\ pc = "captcha"
  /\ \/ /\ \E hasCaptcha \in BOOLEAN :
             pc' = IF hasCaptcha THEN "captchaHandle" ELSE "captchaBypass"
        /\ UNCHANGED <<thrown, thrownAt>>
     \/ \E m \in ErrMsgs : Throw(m)
  /\ UNCHANGED <<trigFrame, trigVars>>

\* if (hasCaptcha) try { headers, CSP, the page scripts, the checkbox click }
\* catch: logged, "will continue"
CaptchaHandle ==
  /\ pc = "captchaHandle"
  /\ \E failed \in BOOLEAN :
       captchaLog' = IF failed THEN captchaLog \cup {"handle"} ELSE captchaLog
  /\ pc' = "captchaBypass"
  /\ UNCHANGED <<trigFrame, tried, race, thrown, thrownAt>>

\* config.nodeEnv === 'development' || process.env.BYPASS_CAPTCHA === 'true'
BypassCaptcha(bypassEnv) == config_nodeEnv = "development" \/ bypassEnv

\* the test-only token injection, in its own try: an error is logged
CaptchaBypass ==
  /\ pc = "captchaBypass"
  /\ \E bypassEnv \in BOOLEAN, failed \in BOOLEAN :
       captchaLog' = IF BypassCaptcha(bypassEnv) /\ failed
                       THEN captchaLog \cup {"bypass"}
                       ELSE captchaLog
  /\ pc' = "trigger"
  /\ UNCHANGED <<trigFrame, tried, race, thrown, thrownAt>>

\* NeedsClick taking the click path whatever the page script returned
NeedsClickAlways(r) == TRUE

\* if (!formSubmitted): r is what the page script of strategy (a) gave
NeedsClick(r) == r = "failed"

\* strategy (a): the page script dispatches a submit event and calls
\* form.submit(); it returns true ("ok"), false when there is no form or the
\* script caught an exception ("failed"), or the evaluation rejects ("threw")
\* and the catch around the strategies logs it
TriggerJs ==
  /\ pc = "trigger"
  /\ \E r \in {"ok", "failed", "threw"} :
       /\ tried' = <<[s |-> "a", res |-> r]>>
       /\ pc' = IF r = "threw" THEN "urlCheck"
                ELSE IF NeedsClick(r) THEN "button" ELSE "settle"
  /\ captchaLog' = {}
  /\ UNCHANGED <<trigFrame, race, thrown, thrownAt>>

\* strategy (b): page.$('button[type="submit"]'); no such button ("absent"),
\* or the mouse / element click went through, also by the page-script click
\* tried after an error ("ok"), or every click rejected, each logged
\* ("failed"), or the lookup rejects ("threw")
TriggerButton ==
  /\ pc = "button"
  /\ \E r \in {"absent", "ok", "failed", "threw"} :
       /\ tried' = Append(tried, [s |-> "b", res |-> r])
       /\ pc' = IF r = "absent" THEN "textButton"
                ELSE IF r = "threw" THEN "urlCheck" ELSE "settle"
  /\ UNCHANGED <<trigFrame, captchaLog, race, thrown, thrownAt>>

\* strategy (c): the first button whose text includes submit, verify or check
\* is clicked ("ok"); with no such button every button is clicked by a page
\* script ("absent"); page.$$ or that script rejects ("threw")
TriggerText ==
  /\ pc = "textButton"
  /\ \E r \in {"ok", "absent", "threw"} :
       /\ tried' = Append(tried, [s |-> "c", res |-> r])
       /\ pc' = IF r = "threw" THEN "urlCheck" ELSE "settle"
  /\ UNCHANGED <<trigFrame, captchaLog, race, thrown, thrownAt>>

\* Settle with a race that rejects when neither signal arrives in time
SettleRejects ==
  /\ pc = "settle"
  /\ \/ /\ \E r \in {"navigation", "response"} : race' = r
        /\ pc' = "urlCheck"
        /\ UNCHANGED <<thrown, thrownAt>>
     \/ /\ race' = "timeout"
        /\ Throw(<<"Navigation", "timeout">>)
  /\ UNCHANGED <<trigFrame, captchaLog, tried>>

\* delay(10000), then Promise.race of waitForNavigation and waitForResponse,
\* each with a 5000 ms timeout and a .catch: the race resolves when one of
\* the signals arrives or when both have timed out. Reached only when no
\* strategy threw: a throw skips the rest of the try block
Settle ==
  /\ pc = "settle"
  /\ \E r \in {"navigation", "response", "timeout"} : race' = r
  /\ pc' = "urlCheck"
  /\ UNCHANGED <<trigFrame, captchaLog, tried, thrown, thrownAt>>

\* strategy (d), after the try block of the strategies, in its own try: when
\* the URL of the page includes g-recaptcha-response and not validation,
\* page.goto to the target with the form fields as query parameters; an
\* error is logged
TriggerUrl ==
  /\ pc = "urlCheck"
  /\ \E hasToken \in BOOLEAN, r \in {"ok", "failed"} :
       tried' = IF hasToken THEN Append(tried, [s |-> "d", res |-> r]) ELSE tried
  /\ race' = "none"
  /\ pc' = "domSubmit"
  /\ UNCHANGED <<trigFrame, captchaLog, thrown, thrownAt>>

\* after strategy (d): hasResults (false when the check rejects); without a
\* Validation Results heading the inputs are set and the submit button clicked
\* by a page script, in its own try; then the wait, the screenshot, the URL
\* and the title, each error logged. The submission steps are over
DomSubmit ==
  /\ pc = "domSubmit"
  /\ tried' = <<>>
  /\ pc' = "extract"
  /\ UNCHANGED <<trigFrame, captchaLog, race, thrown, thrownAt>>

\* ExtractStep with a rejection of the extraction script thrown to the catch
\* clause of the attempt
ExtractStepThrows ==
  /\ pc = "extract"
  /\ \/ /\ \E p \in Pages : dom' = p /\ resultData' = Extract(p)
        /\ pc' = "classify"
        /\ UNCHANGED <<thrown, thrownAt>>
     \/ /\ \E m \in ErrMsgs : Throw(m)
        /\ UNCHANGED <<dom, resultData>>
  /\ UNCHANGED <<svcFrame, browser, page, retryCount, lastError, ret, outcome,
                 browsers, pages, connects, delays, attempts, via>>

\* the extraction script runs on the page as it is now, or throws; the
\* rejection is turned into a result by the .catch, so nothing reaches the
\* catch clause around the extraction
ExtractStep ==
  /\ pc = "extract"
  /\ \/ \E p \in Pages : dom' = p /\ resultData' = Extract(p)
     \/ \E m \in ErrMsgs : dom' = NoDom /\ resultData' = ExtractFailed(m)
  /\ pc' = "classify"
  /\ UNCHANGED <<svcFrame, browser, page, retryCount, lastError, thrown, thrownAt, ret, outcome,
                 browsers, pages, connects, delays, attempts, via>>

formData == FormDataOf(body)

\* a return statement inside the try block: the finally clause runs first
Return(o, how) ==
  /\ ret' = o
  /\ via' = how
  /\ attempts' = Append(attempts, [end |-> "return", msg |-> UNDEF])
  /\ pc' = "finally"

\* SimulateOrLast with the last-attempt test true from the first attempt on
SimulateOrLastFromStart == config_autoSimulateOnError \/ retryCount >= 0

\* config.autoSimulateOnError || retryCount >= maxRetries - 1
SimulateOrLast == config_autoSimulateOnError \/ retryCount >= maxRetries - 1

\* MaySimulate without the AUTO_SIMULATE_ON_ERROR test
MaySimulateNoAutoFlag == config_nodeEnv = "development" \/ config_simulateResults

\* MaySimulate with the environment test dropped
MaySimulateAlways == TRUE

\* MaySimulate without the SIMULATE_RESULTS test
MaySimulateNoResultsFlag == config_nodeEnv = "development" \/ config_autoSimulateOnError

\* config.nodeEnv === 'development' || config.simulateResults || config.autoSimulateOnError
MaySimulate ==
  config_nodeEnv = "development" \/ config_simulateResults \/ config_autoSimulateOnError

\* server error, simulation allowed: the fabricated result is returned
SimulateReturn ==
  /\ pc = "classify"
  /\ IsServerError(resultData)
  /\ SimulateOrLast
  /\ MaySimulate
  /\ Return(SimulatedOutcome(formData), "simulate")
  /\ UNCHANGED <<svcFrame, browser, page, retryCount, lastError, thrown, thrownAt, resultData,
                 outcome, browsers, pages, connects, delays, dom>>

\* server error on the last attempt in production: it is returned as it is
ServerErrorReturn ==
  /\ pc = "classify"
  /\ IsServerError(resultData)
  /\ SimulateOrLast
  /\ ~MaySimulate
  /\ Return(ServerErrorOutcome(resultData, formData), "serverError")
  /\ UNCHANGED <<svcFrame, browser, page, retryCount, lastError, thrown, thrownAt, resultData,
                 outcome, browsers, pages, connects, delays, dom>>

\* Backoff with a fixed delay
BackoffFlat(n) == BackoffMs

\* the delay waited before the next attempt, after the increment
Backoff(n) == n * BackoffMs

\* server error on an earlier attempt: retry after the backoff (continue)
ServerErrorRetry ==
  /\ pc = "classify"
  /\ IsServerError(resultData)
  /\ ~SimulateOrLast
  /\ ~config_autoSimulateOnError
  /\ lastError' = <<"Treasury", "server", "error", ":">> \o Str(resultData.details)
  /\ retryCount' = retryCount + 1
  /\ delays' = Append(delays, Backoff(retryCount + 1))
  /\ attempts' = Append(attempts, [end |-> "serverError", msg |-> lastError'])
  /\ pc' = "finally"
  /\ UNCHANGED <<svcFrame, browser, page, thrown, thrownAt, resultData, ret, outcome, browsers,
                 pages, connects, dom, via>>

\* no server error: the result is returned
NormalReturn ==
  /\ pc = "classify"
  /\ ~IsServerError(resultData)
  /\ Return(NormalOutcome(resultData, formData), "normal")
  /\ UNCHANGED <<svcFrame, browser, page, retryCount, lastError, thrown, thrownAt, resultData,
                 outcome, browsers, pages, connects, delays, dom>>

\* Caught keeping the first error (lastError = lastError || error)
CaughtFirst(prev, err) == IF prev # UNDEF THEN prev ELSE err

\* the error caught: lastError = error
Caught(prev, err) == err

\* Catch waiting the backoff whether or not an attempt is left
CatchAlwaysWaits ==
  /\ pc = "catch"
  /\ lastError' = Caught(lastError, thrown)
  /\ retryCount' = retryCount + 1
  /\ delays' = Append(delays, Backoff(retryCount + 1))
  /\ attempts' = Append(attempts, [end |-> "thrown", msg |-> thrown])
  /\ thrown' = UNDEF
  /\ thrownAt' = "none"
  /\ pc' = "finally"
  /\ UNCHANGED <<svcFrame, browser, page, resultData, ret, outcome, browsers, pages,
                 connects, dom, via>>

\* the catch clause of the attempt
Catch ==
  /\ pc = "catch"
  /\ lastError' = Caught(lastError, thrown)
  /\ retryCount' = retryCount + 1
  /\ delays' = IF retryCount + 1 < maxRetries
                 THEN Append(delays, Backoff(retryCount + 1))
                 ELSE delays
  /\ attempts' = Append(attempts, [end |-> "thrown", msg |-> thrown])
  /\ thrown' = UNDEF
  /\ thrownAt' = "none"
  /\ pc' = "finally"
  /\ UNCHANGED <<svcFrame, browser, page, resultData, ret, outcome, browsers, pages,
                 connects, dom, via>>

\* Finally with the bug of a finally clause that ends in 'continue': the
\* pending return is dropped and the loop goes on
FinallyContinues ==
  /\ pc = "finally"
  /\ IF page # 0 THEN pages' = Closed(pages, page) ELSE UNCHANGED pages
  /\ typed' = <<>>
  /\ pc' = "loop"
  /\ UNCHANGED <<attemptFrame, trigVars, browser, page, retryCount, lastError, thrown, thrownAt, resultData, ret,
                 outcome, browsers, connects, delays, attempts, dom, via>>

\* the finally clause: the page is closed and its form with it, then the
\* return completes or the loop goes on
Finally ==
  /\ pc = "finally"
  /\ IF page # 0
       THEN pages' = Closed(pages, page)
       ELSE UNCHANGED pages
  /\ typed' = <<>>
  /\ IF via # "none"
       THEN outcome' = ret /\ pc' = "done"
       ELSE UNCHANGED outcome /\ pc' = "loop"
  /\ UNCHANGED <<attemptFrame, trigVars, browser, page, retryCount, lastError, thrown, thrownAt, resultData, ret,
                 browsers, connects, delays, attempts, dom, via>>

\* after the loop: the browser is closed and the failure is returned
Cleanup ==
  /\ pc = "cleanup"
  /\ IF browser # 0
       THEN browsers' = Closed(browsers, browser)
       ELSE UNCHANGED browsers
  /\ outcome' = FailureOutcome(lastError)
  /\ via' = "exhausted"
  /\ pc' = "done"
  /\ UNCHANGED <<svcFrame, browser, page, retryCount, lastError, thrown, thrownAt, resultData, ret,
                 pages, connects, delays, attempts, dom>>

Next ==
  \/ CtlReject
  \/ CtlSubmit
  \/ CtlRespond
  \/ LoopTest
  \/ ResetBrowser
  \/ Connect
  \/ NewPage
  \/ Setup
  \/ Navigate
  \/ FormCheck
  \/ Fill
  \/ Captcha
  \/ CaptchaHandle
  \/ CaptchaBypass
  \/ TriggerJs
  \/ TriggerButton
  \/ TriggerText
  \/ Settle
  \/ TriggerUrl
  \/ DomSubmit
  \/ ExtractStep
  \/ SimulateReturn
  \/ ServerErrorReturn
  \/ ServerErrorRetry
  \/ NormalReturn
  \/ Catch
  \/ Finally
  \/ Cleanup

Spec == Init /\ [][Next]_vars

\* the submissions followed to their end: those of a server started with the
\* default simulation mode
FairInit == Init /\ env.SIMULATION_MODE = "unset"

\* every awaited operation resolves or rejects: a step that can be taken is taken
FairSpec == FairInit /\ [][Next]_vars /\ WF_vars(Next)

\* requests whose values differ from field to field, and one request with a
\* missing field
Requests ==
  {b \in [{RequiredFields[i] : i \in 1..Len(RequiredFields)} -> {"text", "other"}] :
     b.issueDate = "text" /\ b.checkAmount = "text"}
    \cup {[f \in {RequiredFields[i] : i \in 1..Len(RequiredFields)} |->
             IF f = "symbol" THEN "undefined" ELSE "text"]}

\* such a request arrives at a server in production or in development

RequestInit ==
  /\ ServerStart
  /\ ClientOff
  /\ env \in {e \in Envs : /\ e.NODE_ENV \in {"production", "development"}
                           /\ e.SIMULATE_RESULTS = "unset"
                           /\ e.AUTO_SIMULATE_ON_ERROR = "unset"
                           /\ e.SIMULATION_MODE = "unset"
                           /\ e.SIMULATE_SUCCESS = "unset"}
  /\ body \in Requests

\* the server handling one request out of Requests
RequestSpec == RequestInit /\ [][Next]_vars

\* ------------------------------------------- concurrent calls of submitForm
\* Each HTTP request calls submitForm on the service instance of the one
\* controller; the calls interleave at their awaits.

\* FrameOf with browser and page kept in fields of the shared service instance
FrameOfInstance(c) == 1

\* let browser = null; let page = null: the locals belong to the call
FrameOf(c) == c

browserOf(c) == frames[FrameOf(c)].browser
pageOf(c) == frames[FrameOf(c)].page

\* the state of the single-call model, which the concurrent calls leave alone
serverVars ==
  <<reqVars, ctlVars, trigVars, typed, pc, browser, page, retryCount, lastError, thrown,
    thrownAt, resultData, ret, outcome, browsers, pages, connects, delays, attempts,
    dom, via>>
soloVars == <<serverVars, clientVars>>

\* submitForm is entered: the locals are initialised
CallStart(c) ==
  /\ calls[c].pc = "idle"
  /\ frames' = [frames EXCEPT ![FrameOf(c)] = NullFrame]
  /\ calls' = [calls EXCEPT ![c].pc = "loop"]
  /\ UNCHANGED used

\* while (retryCount < maxRetries)
CallLoop(c) ==
  /\ calls[c].pc = "loop"
  /\ calls' = [calls EXCEPT ![c].pc =
                 IF calls[c].retryCount < maxRetries
                   THEN (IF browserOf(c) # NullH THEN "reset" ELSE "connect")
                   ELSE "cleanup"]
  /\ UNCHANGED <<frames, used>>

\* the browser of the previous attempt is closed
CallReset(c) ==
  /\ calls[c].pc = "reset"
  /\ used' = used \cup {<<c, browserOf(c)>>}
  /\ frames' = [frames EXCEPT ![FrameOf(c)] = NullFrame]
  /\ calls' = [calls EXCEPT ![c].pc = "connect"]

\* puppeteer.connect / puppeteer.launch: a new browser of this call, or an error
CallConnect(c) ==
  /\ calls[c].pc = "connect"
  /\ \/ /\ frames' = [frames EXCEPT ![FrameOf(c)].browser = <<c, calls[c].connects + 1>>]
        /\ calls' = [calls EXCEPT ![c].pc = "newPage", ![c].connects = @ + 1]
     \/ /\ calls' = [calls EXCEPT ![c].pc = "catch", ![c].connects = @ + 1]
        /\ UNCHANGED frames
  /\ UNCHANGED used

\* browser.newPage()
CallNewPage(c) ==
  /\ calls[c].pc = "newPage"
  /\ browserOf(c) # NullH
  /\ used' = used \cup {<<c, browserOf(c)>>}
  /\ \/ /\ frames' = [frames EXCEPT ![FrameOf(c)].page = browserOf(c)]
        /\ calls' = [calls EXCEPT ![c].pc = "work"]
     \/ /\ calls' = [calls EXCEPT ![c].pc = "catch"]
        /\ UNCHANGED frames

\* the page calls of the attempt, from setUserAgent to the extraction, and
\* how the attempt ends: a return, a server-error retry, or an error thrown
CallWork(c) ==
  /\ calls[c].pc = "work"
  /\ pageOf(c) # NullH
  /\ used' = used \cup {<<c, pageOf(c)>>}
  /\ \/ calls' = [calls EXCEPT ![c].pc = "finally", ![c].returning = TRUE]
     \/ /\ calls[c].retryCount < maxRetries - 1
        /\ calls' = [calls EXCEPT ![c].pc = "finally", ![c].retryCount = @ + 1]
     \/ calls' = [calls EXCEPT ![c].pc = "catch"]
  /\ UNCHANGED frames

\* the catch clause of the attempt
CallCatch(c) ==
  /\ calls[c].pc = "catch"
  /\ calls' = [calls EXCEPT ![c].pc = "finally", ![c].retryCount = @ + 1]
  /\ UNCHANGED <<frames, used>>

\* the finally clause: the page is closed
CallFinally(c) ==
  /\ calls[c].pc = "finally"
  /\ used' = IF pageOf(c) # NullH THEN used \cup {<<c, pageOf(c)>>} ELSE used
  /\ calls' = [calls EXCEPT ![c].pc = IF calls[c].returning THEN "done" ELSE "loop"]
  /\ UNCHANGED frames

\* after the loop: the browser is closed and the failure is returned
CallCleanup(c) ==
  /\ calls[c].pc = "cleanup"
  /\ used' = IF browserOf(c) # NullH THEN used \cup {<<c, browserOf(c)>>} ELSE used
  /\ calls' = [calls EXCEPT ![c].pc = "done"]
  /\ UNCHANGED frames

ConcInit ==
  /\ Init
  /\ env = [NODE_ENV |-> "production", SIMULATE_RESULTS |-> "unset",
            AUTO_SIMULATE_ON_ERROR |-> "unset", SIMULATION_MODE |-> "unset",
            SIMULATE_SUCCESS |-> "unset"]
  /\ body = [f \in DOMAIN body |-> "text"]

ConcNext ==
  \/ \E c \in Subs : CallStart(c) /\ UNCHANGED soloVars
  \/ \E c \in Subs : CallLoop(c) /\ UNCHANGED soloVars
  \/ \E c \in Subs : CallReset(c) /\ UNCHANGED soloVars
  \/ \E c \in Subs : CallConnect(c) /\ UNCHANGED soloVars
  \/ \E c \in Subs : CallNewPage(c) /\ UNCHANGED soloVars
  \/ \E c \in Subs : CallWork(c) /\ UNCHANGED soloVars
  \/ \E c \in Subs : CallCatch(c) /\ UNCHANGED soloVars
  \/ \E c \in Subs : CallFinally(c) /\ UNCHANGED soloVars
  \/ \E c \in Subs : CallCleanup(c) /\ UNCHANGED soloVars

\* the submissions the server processes at the same time
ConcSpec == ConcInit /\ [][ConcNext]_vars

\* ------------------------------------------------------- the .NET client
\* the clicks on Scan Check and the verification dialogs a run has at most
MaxScans == 2
MaxDialogs == 2

Apps == {"readme", "main", "form"}

\* the body of the answer to GET /api/health
HealthBody ==
  [status |-> "healthy", environment |-> "production", targetUrl |-> "TCVS_URL"]

\* bodies of answers to POST /api/submit
SubmitBodies ==
  { [success |-> TRUE, message |-> "Form submitted successfully"],
    [success |-> FALSE, message |-> "Treasury server error",
     error |-> "Treasury server returned"],
    [success |-> FALSE, message |-> "Missing required fields",
     error |-> "Missing fields"] }

\* a property of the JSON object, or the default of the C# property when the
\* object has none of that name (names compared without case)
Field(json, name, default) == IF name \in DOMAIN json THEN json[name] ELSE default

\* JsonSerializer.Deserialize<TcvsResponse>
Deserialize(json) ==
  Resp(Field(json, "success", FALSE), Field(json, "message", "null"),
       Field(json, "error", "null"))

HealthFailed == Resp(FALSE, "Health check failed", "ex.Message")
CommFailed ==
  Resp(FALSE, "An error occurred while communicating with the TCVS API", "ex.Message")
Cancelled ==
  Resp(FALSE, "Form submission cancelled by user during verification", "null")

\* CheckHealthAsync: the body of the answer deserialized, or the catch clause
\* when the request fails
CheckHealthAsync == IF apiUp THEN Deserialize(HealthBody) ELSE HealthFailed

\* what POST /submit gives the client
SubmitResults ==
  IF apiUp THEN {Deserialize(b) : b \in SubmitBodies} ELSE {CommFailed}

\* Verified with the answer of the dialog ignored
VerifiedAlways(d) == TRUE

\* result == DialogResult.Yes
Verified(d) == d = "Yes"

\* the console program: var healthCheck = await client.CheckHealthAsync()
ProgHealth ==
  /\ app \in {"readme", "main"}
  /\ prog.pc = "start"
  /\ prog' = [pc |-> "checked", healthCheck |-> CheckHealthAsync]
  /\ UNCHANGED <<apiUp, app, lib, form, posts, dialogs>>

\* Program.Main returns when the health check has no Success; the usage in
\* the README goes on to the submission either way
ProgSubmit ==
  /\ prog.pc = "checked"
  /\ IF app = "main" /\ ~prog.healthCheck.Success
       THEN /\ prog' = [prog EXCEPT !.pc = "exit"]
            /\ UNCHANGED lib
       ELSE /\ prog' = [prog EXCEPT !.pc = "submitting"]
            /\ lib' = [lib EXCEPT !.pc = "called"]
  /\ UNCHANGED <<apiUp, app, form, posts, dialogs>>

\* SubmitTcvsFormAsync with _enableVerification: ShowVerificationDialog, and
\* the return without a request when the user has not confirmed; an
\* exception of the dialog goes to the catch clause
LibDialog ==
  /\ lib.pc = "called"
  /\ \/ \E d \in {"Yes", "No"} :
          /\ dialogs' = Append(dialogs, d)
          /\ lib' = IF Verified(d)
                      THEN [lib EXCEPT !.pc = "posting", !.answer = d]
                      ELSE [pc |-> "returned", answer |-> d, result |-> Cancelled]
     \/ /\ lib' = [pc |-> "returned", answer |-> "threw", result |-> CommFailed]
        /\ UNCHANGED dialogs
  /\ UNCHANGED <<apiUp, app, prog, form, posts>>

\* _httpClient.PostAsync($"{_baseUrl}/submit", content) and the answer
\* deserialized, or the catch clause
LibPost ==
  /\ lib.pc = "posting"
  /\ posts' = Append(posts, [by |-> "lib", answer |-> lib.answer])
  /\ \E r \in SubmitResults : lib' = [lib EXCEPT !.pc = "returned", !.result = r]
  /\ UNCHANGED <<apiUp, app, prog, form, dialogs>>

\* the result is printed
ProgExit ==
  /\ prog.pc = "submitting"
  /\ lib.pc = "returned"
  /\ prog' = [prog EXCEPT !.pc = "exit"]
  /\ UNCHANGED <<apiUp, app, lib, form, posts, dialogs>>

\* VerificationForm.CheckApiHealth, started by the constructor, resumes
FormHealth ==
  /\ app = "form"
  /\ form.health = "pending"
  /\ LET healthCheck == CheckHealthAsync
     IN form' = [form EXCEPT
                   !.health = "done",
                   !.healthCheck = healthCheck,
                   !.lblStatus = IF healthCheck.Success
                                   THEN "API connection successful. Ready to process checks."
                                   ELSE "API connection failed: ",
                   !.btnScan = IF healthCheck.Success THEN @ ELSE FALSE]
  /\ UNCHANGED <<apiUp, app, prog, lib, posts, dialogs>>

\* BtnScan_Click: a timer of 1500 ms is created and started inside a using
\* block, and disposed when the handler leaves the block, long before the
\* interval has passed. Dispose stops a System.Windows.Forms.Timer, so no
\* tick is pending afterwards (raised = FALSE); that a tick is raised all the
\* same is kept as the other outcome
FormScan ==
  /\ app = "form"
  /\ form.btnScan
  /\ ~form.dialog
  /\ form.scans < MaxScans
  /\ \E raised \in BOOLEAN :
       form' = [form EXCEPT !.timer = @ \/ raised, !.scans = @ + 1,
                            !.lblStatus = "Scanning check... (simulating card reader)"]
  /\ UNCHANGED <<apiUp, app, prog, lib, posts, dialogs>>

\* timer.Tick: the fields are filled and Verify & Submit is enabled
FormTick ==
  /\ form.timer
  /\ form' = [form EXCEPT !.timer = FALSE, !.btnVerify = TRUE,
                          !.lblStatus = "Check scanned successfully. Please verify the information and click 'Verify & Submit'."]
  /\ UNCHANGED <<apiUp, app, prog, lib, posts, dialogs>>

\* BtnVerify_Click: the verification dialog is shown
FormVerify ==
  /\ app = "form"
  /\ form.btnVerify
  /\ ~form.dialog
  /\ Len(dialogs) < MaxDialogs
  /\ form' = [form EXCEPT !.dialog = TRUE]
  /\ UNCHANGED <<apiUp, app, prog, lib, posts, dialogs>>

\* the dialog is answered: on Yes SubmitForm runs up to its await, which sends
\* the request through the client built with enableVerification: false; on
\* No the status says the submission is cancelled
FormAnswer ==
  /\ form.dialog
  /\ \E d \in {"Yes", "No"} :
       /\ dialogs' = Append(dialogs, d)
       /\ IF Verified(d)
            THEN /\ form' = [form EXCEPT !.dialog = FALSE, !.answer = d,
                                         !.lblStatus = "Submitting to TCVS...",
                                         !.btnVerify = FALSE, !.btnScan = FALSE,
                                         !.posting = @ + 1]
                 /\ posts' = Append(posts, [by |-> "form", answer |-> d])
            ELSE /\ form' = [form EXCEPT !.dialog = FALSE, !.answer = d,
                                         !.lblStatus = "Submission cancelled. You can edit the fields and try again."]
                 /\ UNCHANGED posts
  /\ UNCHANGED <<apiUp, app, prog, lib>>

\* SubmitForm resumes with the response: the status is set, and the finally
\* clause enables Scan Check
FormResponse ==
  /\ form.posting > 0
  /\ \E r \in SubmitResults :
       form' = [form EXCEPT !.posting = @ - 1, !.btnScan = TRUE,
                           !.lblStatus = IF r.Success
                                           THEN "Check verified successfully!"
                                           ELSE "Check verification failed"]
  /\ UNCHANGED <<apiUp, app, prog, lib, posts, dialogs>>

\* a client program is started against an API that runs or does not
ClientInit ==
  /\ ServerInit
  /\ env = [NODE_ENV |-> "production", SIMULATE_RESULTS |-> "unset",
            AUTO_SIMULATE_ON_ERROR |-> "unset", SIMULATION_MODE |-> "unset",
            SIMULATE_SUCCESS |-> "unset"]
  /\ body = [f \in DOMAIN body |-> "text"]
  /\ apiUp \in BOOLEAN
  /\ app \in Apps
  /\ prog = ProgStart
  /\ lib = LibIdle
  /\ form = FormStart
  /\ posts = <<>>
  /\ dialogs = <<>>

ClientNext ==
  \/ ProgHealth /\ UNCHANGED <<serverVars, concVars>>
  \/ ProgSubmit /\ UNCHANGED <<serverVars, concVars>>
  \/ LibDialog /\ UNCHANGED <<serverVars, concVars>>
  \/ LibPost /\ UNCHANGED <<serverVars, concVars>>
  \/ ProgExit /\ UNCHANGED <<serverVars, concVars>>
  \/ FormHealth /\ UNCHANGED <<serverVars, concVars>>
  \/ FormScan /\ UNCHANGED <<serverVars, concVars>>
  \/ FormTick /\ UNCHANGED <<serverVars, concVars>>
  \/ FormVerify /\ UNCHANGED <<serverVars, concVars>>
  \/ FormAnswer /\ UNCHANGED <<serverVars, concVars>>
  \/ FormResponse /\ UNCHANGED <<serverVars, concVars>>

\* the client programs against the API
ClientSpec == ClientInit /\ [][ClientNext]_vars

\* the message loop delivers what is pending and the user goes on clicking
ClientFairSpec == ClientSpec /\ WF_vars(ClientNext)

\* ================================================================ claims
Returned == pc = "done"

\* C1: a submission started with a valid request eventually returns, given
\* that every awaited operation resolves or rejects; what it returns is a
\* Success with a definite simulated flag or a Failure; once a return
\* statement has run, no further attempt is started and the outcome, once
\* returned, never changes (one outcome per submission).
C1_ReturnsOnce ==
  /\ (cpc = "awaiting") ~> (Returned /\ outcome # NoOutcome)
  /\ [](Returned => (outcome.success => outcome.data.simulated \in {"true", "false"}))
  /\ [][via # "none" => (connects' = connects /\ via' = via /\ ret' = ret)]_vars
  /\ [][Returned => (Returned' /\ outcome' = outcome)]_vars

\* C1 witness: a submission that retried after a thrown error and after a
\* server error, and then returned
C1_Witness ==
  /\ Returned
  /\ outcome.success
  /\ Len(attempts) = 3
  /\ attempts[1].end = "thrown"
  /\ attempts[2].end = "serverError"

\* the returned outcome came from a return statement of an attempt
ReturnedFromAttempt == Returned /\ via # "exhausted"

\* the last extraction synthesized its result on a localhost page
UsedLocalhostFallback ==
  /\ dom # NoDom
  /\ FirstBlock(dom.headings) = 0
  /\ FirstAlert(dom.alerts) = 0
  /\ LocalhostFallback(dom, ExtractBody(dom.body))

\* simulation after a server error is allowed by the environment
EnvAllowsSimulation ==
  \/ env.NODE_ENV \in {"unset", "development"}
  \/ env.SIMULATE_RESULTS = "true"
  \/ env.AUTO_SIMULATE_ON_ERROR = "true"

\* C2 as stated: data.simulated is true exactly in the outcomes returned by
\* the server-error branch.
C2_Original ==
  Returned => (outcome.data.simulated = "true" <=> via \in {"simulate", "serverError"})

\* C2 amended: data.simulated is true exactly when the outcome is the
\* fabricated return of the server-error branch, or the normal return of a
\* result synthesized by the extractor's localhost fallback or overridden by
\* the SIMULATE_SUCCESS development override; the server-error branch returns
\* simulated=false in its production return.
C2_SimulatedIff ==
  Returned =>
    /\ outcome.data.simulated = "true" <=>
         \/ via = "simulate"
         \/ via = "normal" /\ (UsedLocalhostFallback \/ SimulateSuccessApplies(resultData))
    /\ via = "serverError" => outcome.data.simulated = "false"

\* C2 witness: a normal return that carries simulated=true
C2_Witness ==
  /\ Returned
  /\ via = "normal"
  /\ outcome.data.simulated = "true"
  /\ SimulateSuccessApplies(resultData)

\* C3: when the outcome is returned, close has been called on every browser
\* and every page the submission opened.
C3_AllClosed ==
  Returned => \A h \in Handles : browsers[h].st # "open" /\ pages[h].st # "open"

\* C4: the retry counter never exceeds 3 and at most 3 attempts (connects or
\* launches) are started, whatever the mix of server-error and thrown-error
\* retries.
C4_RetryBound == retryCount <= 3 /\ connects <= 3

\* C4 witness: the budget used up by a server-error retry and thrown errors
C4_Witness ==
  /\ retryCount = 3
  /\ connects = 3
  /\ \E i \in 1..Len(attempts) : attempts[i].end = "serverError"
  /\ \E i \in 1..Len(attempts) : attempts[i].end = "thrown"

\* C5: an attempt that starts with the retry counter at n > 0 was preceded by
\* a backoff delay of 5n seconds, the n-th delay waited, after a server-error
\* retry and after a thrown error alike.
C5_Backoff ==
  (pc \in {"reset", "connect"} /\ retryCount > 0) =>
    /\ Len(delays) = retryCount
    /\ delays[retryCount] = 5 * retryCount * 1000

\* C5 witness: the third attempt starts after one retry of each kind
C5_Witness ==
  /\ pc = "connect"
  /\ retryCount = 2
  /\ attempts[1].end = "serverError"
  /\ attempts[2].end = "thrown"

AbsentFields == {f \in DOMAIN body : body[f] = "undefined"}
Named(fields) == {fields[i] : i \in 1..Len(fields)}

\* C6: a request with a required field missing is answered 400 with the
\* missing fields named, and the service is never called: no browser is
\* connected or launched.
C6_MissingRejected ==
  AbsentFields # {} =>
    /\ serviceCalls = 0 /\ connects = 0 /\ pc = "idle"
    /\ cpc = "responded" => (res.status = 400 /\ AbsentFields \subseteq Named(res.missing))

\* C6 witness: a request with two fields missing has been rejected
C6_Witness ==
  /\ Cardinality(AbsentFields) = 2
  /\ cpc = "responded"
  /\ res.status = 400

\* the attempt that returned had extracted a server error, with the
\* auto-simulate flag set or on the final allowed attempt
ServerErrorDecided ==
  /\ ReturnedFromAttempt
  /\ IsServerError(resultData)
  /\ (env.AUTO_SIMULATE_ON_ERROR = "true" \/ retryCount = 2)

\* C7 as stated: such an attempt returns success=true and simulated=true
\* whatever the environment and the other flags.
C7_Original ==
  ServerErrorDecided => (outcome.success /\ outcome.data.simulated = "true")

\* C7 amended: such an attempt returns success=true and simulated=true when
\* the environment is development (NODE_ENV unset or 'development') or
\* SIMULATE_RESULTS or AUTO_SIMULATE_ON_ERROR is set; in production with both
\* flags off it returns success=false and simulated=false.
C7_SimulatedWhenAllowed ==
  ServerErrorDecided =>
    IF EnvAllowsSimulation
      THEN outcome.success /\ outcome.data.simulated = "true"
      ELSE ~outcome.success /\ outcome.data.simulated = "false"

\* C7 witness: production with SIMULATE_RESULTS set, server error on the final
\* attempt, simulated
C7_Witness ==
  /\ ServerErrorDecided
  /\ env.NODE_ENV = "production"
  /\ env.SIMULATE_RESULTS = "true"
  /\ env.AUTO_SIMULATE_ON_ERROR = "unset"
  /\ outcome.data.simulated = "true"

\* every attempt of the submission extracted a server error
ServerErrorForced ==
  /\ ReturnedFromAttempt
  /\ IsServerError(resultData)
  /\ \A i \in 1..(Len(attempts) - 1) : attempts[i].end = "serverError"

\* C8 as stated: with simulation mode success a forced server error ends in
\* 'Check Verified (Simulated)', verified, for either value of the flag.
C8_Original ==
  (ServerErrorForced /\ env.SIMULATION_MODE \in {"unset", "success"}) =>
    /\ outcome.data.status = <<"Check", "Verified", "(Simulated)">>
    /\ outcome.data.verified = "true"

\* C8 amended: the same, provided the environment is development or
\* SIMULATE_RESULTS or AUTO_SIMULATE_ON_ERROR is set.
C8_SuccessMode ==
  (ServerErrorForced /\ env.SIMULATION_MODE \in {"unset", "success"}
     /\ EnvAllowsSimulation) =>
    /\ outcome.data.status = <<"Check", "Verified", "(Simulated)">>
    /\ outcome.data.verified = "true"

\* C8 witness: the flag off, the server error met on all three attempts
C8_Witness ==
  /\ ServerErrorForced
  /\ env.SIMULATION_MODE = "success"
  /\ env.AUTO_SIMULATE_ON_ERROR = "unset"
  /\ Len(attempts) = 3
  /\ outcome.data.verified = "true"

\* C9 as stated: with simulation mode noMatch a forced server error ends in
\* 'No Match (Simulated)', not verified, for either value of the flag.
C9_Original ==
  (ServerErrorForced /\ env.SIMULATION_MODE = "noMatch") =>
    /\ outcome.data.status = <<"No", "Match", "(Simulated)">>
    /\ outcome.data.verified = "false"

\* C9 amended: the same, provided the environment is development or
\* SIMULATE_RESULTS or AUTO_SIMULATE_ON_ERROR is set.
C9_NoMatchMode ==
  (ServerErrorForced /\ env.SIMULATION_MODE = "noMatch" /\ EnvAllowsSimulation) =>
    /\ outcome.data.status = <<"No", "Match", "(Simulated)">>
    /\ outcome.data.verified = "false"

\* C9 witness: the flag set, the server error met on the first attempt
C9_Witness ==
  /\ ServerErrorForced
  /\ env.SIMULATION_MODE = "noMatch"
  /\ env.AUTO_SIMULATE_ON_ERROR = "true"
  /\ Len(attempts) = 1
  /\ outcome.data.simulated = "true"

\* C10: every attempt that ends by a thrown error or a server-error retry
\* counts on the retry counter and the next attempt starts at Connect; when
\* the budget is used up, the outcome is a Failure whose error and
\* data.details are the message of the error thrown by the last attempt.
C10_LastError ==
  /\ via = "none" => retryCount = Len(attempts)
  /\ (pc = "connect" /\ Len(attempts) > 0) => attempts[Len(attempts)].end # "return"
  /\ (Returned /\ via = "exhausted") =>
       /\ ~outcome.success
       /\ Len(attempts) = 3
       /\ attempts[3].end = "thrown"
       /\ outcome.error = attempts[3].msg
       /\ outcome.data.details = attempts[3].msg

\* C10 witness: a server-error retry, then two thrown errors with different
\* messages
C10_Witness ==
  /\ Returned
  /\ via = "exhausted"
  /\ attempts[1].end = "serverError"
  /\ attempts[2].end = "thrown"
  /\ attempts[2].msg # attempts[3].msg

\* the extraction script of the attempt that returned rejected, and the .catch
\* made a result of the rejection
ExtractionThrew == dom = NoDom /\ resultData.error

\* C11 as stated: an outcome with success = false is returned only after
\* exactly 3 attempts were started.
C11_Original == (Returned /\ ~outcome.success) => connects = maxRetries

\* C11: an outcome with success = false is returned only after exactly 3
\* attempts were started, or from the attempt, whichever it is, whose
\* extraction script rejected: that attempt returns the rejection as a result
\* and is not retried.
C11_FailureAfterExhaustionOrExtractionError ==
  (Returned /\ ~outcome.success) =>
    \/ connects = maxRetries
    \/ via = "normal" /\ ExtractionThrew

\* C11 witness: success = false returned by the first attempt
C11_Witness ==
  /\ Returned
  /\ ~outcome.success
  /\ connects = 1
  /\ ExtractionThrew

\* the statements of an attempt whose rejection is not handled where it occurs
Throwing == {"connect", "newPage", "setup", "goto", "formCheck", "fill", "captcha"}

\* C12 as stated: a connection error, a navigation error, an extraction error
\* and any other exception alike abandon the attempt and start a new one
\* while attempts are left; an extraction error on a non-final attempt is
\* not followed by a returned outcome.
C12_Original ==
  (ExtractionThrew /\ retryCount < maxRetries - 1 /\ pc \in {"finally", "done"})
    => via = "none"

\* C12: an error thrown by the connection, the page creation, the page setup,
\* the navigation, the form check, the form filling or the CAPTCHA probe
\* abandons the attempt: no outcome is returned from it and, while fewer than
\* 3 attempts have ended, the loop goes on. An extraction error is not
\* retried: it never reaches the catch clause, and the attempt returns it as
\* an outcome, with success = false unless the development override applies.
C12_ThrownRetriedExtractionReturned ==
  /\ pc = "catch" => thrownAt \in Throwing /\ via = "none" /\ retryCount < maxRetries
  /\ (Len(attempts) \in 1..(maxRetries - 1) /\ attempts[Len(attempts)].end = "thrown")
       => via = "none" /\ retryCount = Len(attempts) /\ pc # "done"
  /\ ExtractionThrew =>
       /\ pc \in {"classify", "finally", "done"}
       /\ pc # "classify" =>
            /\ via = "normal"
            /\ attempts[Len(attempts)].end = "return"
            /\ ret.success = SimulateSuccessApplies(resultData)

\* C12 witness: a navigation error retried, then an extraction error returned
\* by the second attempt
C12_Witness ==
  /\ Returned
  /\ ExtractionThrew
  /\ Len(attempts) = 2
  /\ attempts[1].end = "thrown"
  /\ ~outcome.success

\* C13: every outcome returned carries a simulated flag that is true or false.
C13_SimulatedDefinite == Returned => outcome.data.simulated \in {"true", "false"}

\* the page holds the structured block: an h3 Validation Results, then a
\* div.alert.alert-danger with an h3 Check Verified and the text " Status: Paid"
StructuredVerifiedBlock(p) ==
  \E col \in BOOLEAN :
    p.headings = <<Block(col, TRUE, CheckVerifiedT, PaidTail, AlertDanger)>>

\* C14: the extraction of a page that holds the structured Check Verified
\* block gives status "Check Verified", details "Status: Paid" and
\* isSuccessful true, with the block in a div.col or not.
C14_StructuredBlock ==
  (dom # NoDom /\ StructuredVerifiedBlock(dom)) =>
    /\ resultData.status = CheckVerifiedT
    /\ resultData.details = StatusPaidT
    /\ resultData.isSuccessful = "true"

\* C14 witness: the block outside any div.col has been extracted
C14_Witness ==
  /\ pc = "classify"
  /\ dom # NoDom
  /\ StructuredVerifiedBlock(dom)
  /\ ~dom.headings[1].col
  /\ resultData.status = CheckVerifiedT

\* what each tier of the extraction script finds on a page
Tier1Found(p) == FirstBlock(p.headings) # 0
Tier2Found(p) == FirstAlert(p.alerts) # 0
Tier3Found(p) == Truthy(ExtractBody(p.body).status)

\* C18: the extraction returns the result of the structured block when there
\* is one; of the first matching alert or message element only when there is
\* no structured block; of the page text only when neither is there; and the
\* synthesized default only when no tier found anything.
C18_TierOrder ==
  dom # NoDom =>
    /\ Tier1Found(dom) =>
         resultData = ExtractBlock(dom.headings[FirstBlock(dom.headings)])
    /\ (~Tier1Found(dom) /\ Tier2Found(dom)) =>
         resultData = ExtractAlert(dom.alerts[FirstAlert(dom.alerts)])
    /\ (~Tier1Found(dom) /\ ~Tier2Found(dom) /\ Tier3Found(dom)) =>
         resultData = ExtractBody(dom.body)
    /\ resultData.simulated =>
         ~Tier1Found(dom) /\ ~Tier2Found(dom) /\ ~Tier3Found(dom)

\* C18 witness: a page whose structured block is also a matching alert
\* element, with a different tier-2 reading, extracted by tier 1
C18_Witness ==
  /\ pc = "classify"
  /\ dom # NoDom
  /\ Tier1Found(dom)
  /\ Tier2Found(dom)
  /\ ExtractAlert(dom.alerts[FirstAlert(dom.alerts)])
       # ExtractBlock(dom.headings[FirstBlock(dom.headings)])
  /\ resultData.status = NoMatchT

\* C16: no failure of a step of the CAPTCHA handling, the probe for the
\* widget included, aborts the attempt: none reaches the catch clause.
C16_CaptchaSwallowed == thrownAt # "captcha"

\* the place of a strategy in the order (a), (b), (c), (d)
Ord(st) == CASE st = "a" -> 1 [] st = "b" -> 2 [] st = "c" -> 3 [] st = "d" -> 4

C19_NoDefaultInProduction == config_nodeEnv = "production" => ~resultData.simulated

\* C20: with SIMULATE_RESULTS=true every outcome returned is simulated.
C20_AlwaysSimulated ==
  (Returned /\ config_simulateResults) => outcome.data.simulated = "true"

\* C15: among concurrent submissions, a browser or page handle is used or
\* closed only by the submission that opened it, and the locals of a
\* submission hold only handles it opened.
C15_OwnHandlesOnly ==
  /\ \A u \in used : u[2][1] = u[1]
  /\ \A c \in Subs :
       /\ browserOf(c) # NullH => browserOf(c)[1] = c
       /\ pageOf(c) # NullH => pageOf(c)[1] = c

\* C15 witness: two submissions in their attempts at the same time, each
\* having used a page of its own, one of them in a retry
C15_Witness ==
  /\ calls[1].pc = "work"
  /\ calls[2].pc = "work"
  /\ calls[2].retryCount = 1
  /\ <<1, <<1, 1>>>> \in used
  /\ <<2, <<2, 1>>>> \in used
  /\ pageOf(1) # pageOf(2)

\* C21: a request whose body holds all five fields is never answered 400,
\* whatever the values of the fields.
C21_PresenceOnly ==
  (\A i \in 1..Len(RequiredFields) : body[RequiredFields[i]] # "undefined")
    => res.status # 400

\* the last attempt that ended was a server-error retry
LastWasServerErrorRetry ==
  Len(attempts) > 0 /\ attempts[Len(attempts)].end = "serverError"

\* C24: a server error extracted on an attempt that is not the last, with the
\* auto-simulate flag off, returns no outcome: the retry counter goes up by
\* one and the finally clause follows, which closes the page; the next
\* attempt connects only after close was called on the previous browser, and
\* it works on a browser and a page never used before.
C24_ServerErrorRestart ==
  /\ [][(/\ pc = "classify"
          /\ IsServerError(resultData)
          /\ ~config_autoSimulateOnError
          /\ retryCount < maxRetries - 1)
         => (/\ retryCount' = retryCount + 1
             /\ pc' = "finally"
             /\ via' = "none"
             /\ outcome' = NoOutcome)]_vars
  /\ []((LastWasServerErrorRetry /\ pc \in {"loop", "reset", "connect"})
          => (/\ via = "none"
              /\ connects = Len(attempts)
              /\ pages[connects].st = "closed"
              /\ pages[connects].closeCalls = 1))
  /\ []((LastWasServerErrorRetry /\ pc = "connect")
          => (/\ browser = 0
              /\ page = 0
              /\ browsers[connects].st = "closed"))
  /\ []((LastWasServerErrorRetry /\ pc = "setup")
          => (/\ browser = Len(attempts) + 1
              /\ page = browser
              /\ browsers[browser] = [st |-> "open", closeCalls |-> 0]
              /\ pages[page] = [st |-> "open", closeCalls |-> 0]))

\* C24 witness: the second attempt, after a server-error retry, has its new
\* browser and page, the first browser closed
C24_Witness ==
  /\ pc = "setup"
  /\ Len(attempts) = 1
  /\ LastWasServerErrorRetry
  /\ browser = 2
  /\ browsers[1].st = "closed"
  /\ retryCount = 1

\* C25: with the auto-simulate flag set no server error is retried: the
\* attempt that extracted it returns the simulated outcome, and no browser is
\* connected after it.
C25_AutoSimulateNoRetry ==
  config_autoSimulateOnError =>
    /\ \A i \in 1..Len(attempts) : attempts[i].end # "serverError"
    /\ (IsServerError(resultData) /\ pc # "classify") =>
         /\ pc \in {"finally", "done"}
         /\ via = "simulate"
         /\ ret = SimulatedOutcome(formData)
         /\ ret.data.simulated = "true"
         /\ attempts[Len(attempts)].end = "return"
         /\ connects = Len(attempts)

\* C25 witness: a server error on the second attempt, simulated at once
C25_Witness ==
  /\ config_autoSimulateOnError
  /\ Returned
  /\ IsServerError(resultData)
  /\ connects = 2
  /\ outcome.data.simulated = "true"

\* C26: in production with SIMULATE_RESULTS and AUTO_SIMULATE_ON_ERROR off, an
\* attempt returns on a server error only if it is the last one, and what it
\* returns is the server error: success false, message Treasury server
\* error, status Error, simulated false, treasuryServerError true.
C26_ProductionServerError ==
  (/\ config_nodeEnv = "production"
   /\ ~config_simulateResults
   /\ ~config_autoSimulateOnError
   /\ via \in {"simulate", "serverError", "normal"}
   /\ IsServerError(resultData)) =>
    /\ retryCount = maxRetries - 1
    /\ via = "serverError"
    /\ ~ret.success
    /\ ret.message = "Treasury server error"
    /\ ret.data.status = <<"Error">>
    /\ ret.data.simulated = "false"
    /\ ret.data.treasuryServerError
    /\ ret.data.verified = "false"

\* C26 witness: the third attempt in production returned the server error
C26_Witness ==
  /\ Returned
  /\ config_nodeEnv = "production"
  /\ via = "serverError"
  /\ connects = maxRetries
  /\ outcome.message = "Treasury server error"

\* the statements an attempt may come from when it reaches a statement
ComesFrom ==
  [newPage |-> {"connect"}, setup |-> {"newPage"}, goto |-> {"setup"},
   formCheck |-> {"goto"}, fill |-> {"formCheck"}, captcha |-> {"fill"},
   captchaHandle |-> {"captcha"}, captchaBypass |-> {"captcha", "captchaHandle"},
   trigger |-> {"captchaBypass"}, button |-> {"trigger"}, textButton |-> {"button"},
   settle |-> {"trigger", "button", "textButton"},
   urlCheck |-> {"trigger", "button", "textButton", "settle"},
   domSubmit |-> {"urlCheck"}, extract |-> {"domSubmit"}, classify |-> {"extract"}]

\* C27: in an attempt the connection, the navigation, the form check, the
\* filling, the submission and the extraction follow one another in this
\* order, each reached only from the one before it; Form not found on page is
\* thrown by the form check, so before any field is filled; and when all 3
\* attempts end with it, the outcome is a failure with that message.
C27_StepOrder ==
  /\ [][(pc' # pc /\ pc' \in DOMAIN ComesFrom) => pc \in ComesFrom[pc']]_vars
  /\ [](thrown = FormNotFoundT => (pc = "catch" /\ thrownAt = "formCheck"))
  /\ []((/\ Returned
          /\ via = "exhausted"
          /\ \A i \in 1..Len(attempts) : attempts[i].msg = FormNotFoundT)
         => (/\ ~outcome.success
             /\ outcome.error = FormNotFoundT
             /\ outcome.data.details = FormNotFoundT))

\* C27 witness: the form was missing on all 3 attempts
C27_Witness ==
  /\ Returned
  /\ via = "exhausted"
  /\ Len(attempts) = maxRetries
  /\ \A i \in 1..Len(attempts) : attempts[i].msg = FormNotFoundT
  /\ outcome.error = FormNotFoundT

\* the statements of the submission trigger and of what follows it up to the
\* extraction
TriggerPcs == {"trigger", "button", "textButton", "settle", "urlCheck", "domSubmit"}

\* C28: from the submission trigger to the extraction nothing is thrown to
\* the catch clause of the attempt, neither by a strategy nor by the
\* navigation / response race when it times out: the retry counter stays as
\* it is and the attempt goes on to the extraction.
C28_TriggerNeverAborts ==
  /\ [](pc = "catch" => thrownAt \notin TriggerPcs)
  /\ [][(pc \in TriggerPcs) =>
          (/\ pc' \in TriggerPcs \cup {"extract"}
           /\ retryCount' = retryCount
           /\ attempts' = attempts)]_vars

\* C28 witness: the click of the submit button failed, the race timed out,
\* and the attempt is still the first
C28_Witness ==
  /\ pc = "urlCheck"
  /\ race = "timeout"
  /\ Len(tried) = 2
  /\ tried[2] = [s |-> "b", res |-> "failed"]
  /\ retryCount = 0

\* C29: a structured block in a div.col whose alert has an h3 with text H
\* and then text T is read as status H, details T (the alert text without H,
\* trimmed), fullText the alert text, and isSuccessful true for Check
\* Verified and false for every other heading.
C29_BlockReading ==
  (/\ dom # NoDom
   /\ Tier1Found(dom)
   /\ dom.headings[FirstBlock(dom.headings)].h3
   /\ Trim(dom.headings[FirstBlock(dom.headings)].H) # EMPTY) =>
    LET b == dom.headings[FirstBlock(dom.headings)]
    IN /\ resultData.status = Trim(b.H)
       /\ resultData.fullText = Trim(BlockText(b))
       /\ resultData.details = Trim(Remove(Trim(BlockText(b)), Trim(b.H)))
       /\ resultData.isSuccessful =
            IF Trim(b.H) = CheckVerifiedT THEN "true" ELSE "false"

\* C30: a request is answered once: 400 when a required field is missing,
\* else 200 when the outcome of the service has success true, as every
\* simulated outcome has, and 500 when it has success false; the response
\* sent is not changed afterwards.
C30_OneResponse ==
  /\ [](cpc # "responded" => res = NoRes)
  /\ [](cpc = "responded" =>
          IF Len(missingFields) > 0
            THEN res.status = 400 /\ serviceCalls = 0
            ELSE /\ Returned
                 /\ serviceCalls = 1
                 /\ res.result = outcome
                 /\ res.status = IF outcome.success THEN 200 ELSE 500
                 /\ outcome.data.simulated = "true" => res.status = 200)
  /\ [][(cpc = "responded") => (res' = res /\ cpc' = cpc)]_vars

\* C30 witness: a simulated outcome answered 200
C30_Witness ==
  /\ cpc = "responded"
  /\ res.status = 200
  /\ res.result.data.simulated = "true"
  /\ via = "simulate"

\* C22: against an API that runs and answers GET /api/health with 200, the
\* health check of the client has Success true, in the console programs and
\* in VerificationForm.
C22_HealthySuccess ==
  apiUp =>
    /\ prog.pc # "start" => prog.healthCheck.Success
    /\ (app = "main" /\ prog.pc = "exit") => lib.pc = "returned"
    /\ form.health = "done" => form.healthCheck.Success
    /\ (form.health = "done" /\ form.posting = 0) => form.btnScan

\* C23: a POST /submit is sent only for a submission the user has confirmed
\* in its verification dialog; a declined call of the client returns the
\* cancelled response with nothing sent, and a declined dialog of the form
\* sends nothing and shows that the submission is cancelled.
C23_ConfirmedBeforeSend ==
  /\ [](\A i \in 1..Len(posts) : posts[i].answer = "Yes")
  /\ [](Len(posts) <= Cardinality({i \in 1..Len(dialogs) : dialogs[i] = "Yes"}))
  /\ []((lib.pc = "returned" /\ lib.answer = "No")
          => (lib.result = Cancelled /\ ~lib.result.Success /\ posts = <<>>))
  /\ [][(form.dialog /\ ~form'.dialog /\ form'.answer = "No")
         => (posts' = posts /\ form'.lblStatus = "Submission cancelled. You can edit the fields and try again.")]_vars

\* C23 witness: in the form a dialog was declined, the next one confirmed,
\* and one request was sent
C23_Witness ==
  /\ app = "form"
  /\ dialogs = <<"No", "Yes">>
  /\ Len(posts) = 1
  /\ posts[1].by = "form"

\* C31: submitForm never modifies the request it is given: no step changes
\* it, every attempt types its five values, each into its own field, and
\* the formData a returned outcome carries in submissionInfo equals the
\* request (the Failure outcome after the loop carries no submissionInfo).
C31_RequestUnchanged ==
  /\ [][body' = body]_vars
  /\ [][(pc = "fill" /\ pc' = "captcha") => typed' = FormDataOf(body)]_vars
  /\ [](typed # <<>> => typed = FormDataOf(body))
  /\ []((Returned /\ outcome.data.formData # UNDEF)
          => outcome.data.formData = FormDataOf(body))
  /\ []((Returned /\ via # "exhausted") => outcome.data.formData # UNDEF)

\* C31 witness: the third attempt of a request with different values in its
\* fields has filled the form, after an attempt that threw and one that met a
\* server error
C31_Witness ==
  /\ pc = "classify"
  /\ Len(attempts) = 2
  /\ attempts[1].end = "thrown"
  /\ attempts[2].end = "serverError"
  /\ typed = FormDataOf(body)
  /\ body.symbol = "other"
  /\ body.serial = "text"

\* C32: in VerificationForm a click on Scan Check is followed, sooner or
\* later, by the completed scan: the tick has come and Verify & Submit is
\* enabled.
C32_ScanCompletes ==
  (form.lblStatus = "Scanning check... (simulating card reader)") ~> form.btnVerify

\* the browsers of the submission that are open
OpenBrowsers == {h \in Handles : browsers[h].st = "open"}

\* C33: at every point of a submission at most one of its browsers is open,
\* and a browser is connected or launched only when close has been called on
\* every browser connected before it.
C33_OneOpenBrowser ==
  /\ [](Cardinality(OpenBrowsers) <= 1)
  /\ [][connects' = connects + 1 => OpenBrowsers = {}]_vars
  /\ [](browser # 0 => OpenBrowsers \subseteq {browser})

\* C33 witness: the third browser is open, the two before it are closed
C33_Witness ==
  /\ connects = 3
  /\ browsers[1].st = "closed"
  /\ browsers[2].st = "closed"
  /\ browsers[3].st = "open"

\* the positions at which the next statement operates on the page
PageSteps ==
  {"setup", "goto", "formCheck", "fill", "captcha", "captchaHandle", "captchaBypass",
   "trigger", "button", "textButton", "settle", "urlCheck", "domSubmit", "extract"}

\* C34: a statement that operates on the page or on the browser finds a
\* handle on which close has not been called, close is called at most once on
\* each page and each browser, and a browser is closed only when the page
\* opened in it has been closed.
C34_CloseDiscipline ==
  /\ [](pc \in PageSteps => (page # 0 /\ pages[page].st = "open"))
  /\ [](pc = "newPage" => (browser # 0 /\ browsers[browser].st = "open"))
  /\ [](\A h \in Handles : browsers[h].closeCalls <= 1 /\ pages[h].closeCalls <= 1)
  /\ [](\A h \in Handles : browsers[h].st = "closed" => pages[h].st # "open")
  /\ [][\A h \in Handles :
         (pages[h].st = "open" /\ pages'[h].st = "closed") => browsers[h].st = "open"]_vars

\* C34 witness: all attempts failed; each of the three browsers and each of
\* the pages opened in them has been closed, once
C34_Witness ==
  /\ pc = "done"
  /\ via = "exhausted"
  /\ \A h \in Handles :
       /\ browsers[h].st = "closed" /\ browsers[h].closeCalls = 1
       /\ pages[h].st = "closed" /\ pages[h].closeCalls = 1

\* the status of the outcome is one of the Check Verified statuses
VerifiedStatus(o) == o.data.status \in {CheckVerifiedT, CheckVerifiedT \o SimulatedT}

\* C35: in every returned outcome data.verified is true exactly when
\* data.status is Check Verified or Check Verified (Simulated).
C35_VerifiedIffStatus ==
  Returned => (outcome.data.verified = "true" <=> VerifiedStatus(outcome))

\* C36: an outcome with success true and simulated false carries a
\* verification result read from the page, Check Verified or No Match; no
\* outcome has success true with the status Form Not Submitted, Form
\* Validation Error or Unknown.
C36_RealSuccessHasResult ==
  Returned =>
    /\ (outcome.success /\ outcome.data.simulated = "false")
         => outcome.data.status \in {CheckVerifiedT, NoMatchT}
    /\ outcome.success
         => outcome.data.status \notin {<<"Form", "Not", "Submitted">>,
                                        <<"Form", "Validation", "Error">>, <<"Unknown">>}

\* the result of the attempt shows a server error: the flag is set, or the
\* details or the full text hold 'Server error'
ServerErrorSeen ==
  \/ resultData.isServerError
  \/ (resultData.details # UNDEF /\ Includes(resultData.details, <<"Server", "error">>))
  \/ (resultData.fullText # UNDEF /\ Includes(resultData.fullText, <<"Server", "error">>))

\* C37: an attempt whose result shows a server error ends in the simulated
\* outcome, in the server-error outcome with success false, or in a retry;
\* it never returns a success that is not simulated.
C37_ServerErrorNeverRealSuccess ==
  /\ [][(pc = "classify" /\ ServerErrorSeen) =>
         \/ (via' = "simulate" /\ ret'.success /\ ret'.data.simulated = "true")
         \/ (via' = "serverError" /\ ~ret'.success)
         \/ (via' = "none" /\ retryCount' = retryCount + 1 /\ pc' = "finally")]_vars
  /\ []((Returned /\ ServerErrorSeen)
          => (~outcome.success \/ outcome.data.simulated = "true"))

\* C37 witness: the third attempt read a result whose text alone shows the
\* server error, and the simulated outcome was returned
C37_Witness ==
  /\ Returned
  /\ ServerErrorSeen
  /\ ~resultData.isServerError
  /\ via = "simulate"
  /\ outcome.success
  /\ Len(attempts) = 3

\* C38: a backoff is waited only when another attempt follows it: the step
\* that waits leaves the retry counter under 3, no return statement and no
\* Failure return waits, and in a returned submission every backoff was
\* followed by a connect or launch.
C38_BackoffOnlyBeforeAttempt ==
  /\ [][delays' # delays => (retryCount' < maxRetries /\ via' = "none")]_vars
  /\ [][(via = "none" /\ via' # "none") => delays' = delays]_vars
  /\ [](Returned => (connects = Len(delays) + 1 /\ Len(delays) = Len(attempts) - 1))

\* C38 witness: three attempts ended in thrown errors; two backoffs were
\* waited, none after the third
C38_Witness ==
  /\ Returned
  /\ via = "exhausted"
  /\ delays = <<Backoff(1), Backoff(2)>>
  /\ \A i \in 1..3 : attempts[i].end = "thrown"

====
